---- MODULE Spec2Model ----
(***************************************************************************)
(* Verification model of the hotel ingestion pipeline:                     *)
(*   - the Worker's per-job pipeline (lock, cache, upstream, upsert, ack), *)
(*   - the Dispatcher's cursor-paged discovery and publish-with-retry,     *)
(*   - the upstream HTTP client (retry loop around a circuit breaker),     *)
(*   - the queue consumer's connection lifecycle,                          *)
(*   - the Read API's GET /hotels/{id} with its fallback to the upstream.  *)
(* Time is a discrete clock `now`; a redis key is live while its expiry is *)
(* later than `now`.                                                       *)
(***************************************************************************)
EXTENDS Integers, Sequences, FiniteSets, TLC

VARIABLES
    now,            \* wall clock (ticks)
    hotels,         \* canonical store: set of hotels rows
    reviews,        \* canonical store: set of reviews rows
    translations,   \* canonical store: set of translations rows
    nextUuid,       \* number of primary keys generated so far
    lockExp,        \* redis lock keys: key -> expiry (0 = absent)
    cacheExp,       \* redis cache keys: key -> expiry (0 = absent)
    msg,            \* delivery tag -> job message
    ready,          \* deliveries waiting in the queue
    answers,        \* delivery tag -> sequence of Ack/Nack calls made for it
    hist,           \* what has happened to the job so far (calls, faults, cache timing),
                    \* and the hotels lock_seconds the workers were configured with
    firstWinner,    \* first delivery whose Acquire succeeded (0 = none yet)
    wk,             \* worker -> local state of its consume loop
    dp,             \* Dispatcher: local state of one processBatch run
    queue,          \* Dispatcher: messages published to the primary queue, in order
    cl,             \* upstream client: local state of one executeWithRetry call
    cb,             \* upstream client: the circuit breaker
    cn,             \* queue consumer: broker, connection, reconnect loop, consume loop
    rd              \* Read API: request -> local state of one GET /hotels/{id}

storeVars == <<hotels, reviews, translations, nextUuid>>
redisVars == <<lockExp, cacheExp>>
queueVars == <<msg, ready, answers>>
workerVars == <<now, storeVars, redisVars, queueVars, hist, firstWinner, wk>>

dispatchVars == <<dp, queue>>
clientVars == <<cl, cb>>
nonWorkerVars == <<dispatchVars, clientVars, cn, rd>>

vars == <<workerVars, nonWorkerVars>>

-----------------------------------------------------------------------------
(* Bounds of the model *)

MaxPublishFaults == 2
MaxCalls == 2
MaxOutages == 1
MaxReceived == 1
MaxCloseCalls == 2
MaxBatchSize == 2
MaxHotelID == 2
MaxReviewRows == 2
NumWorkers == 2
NumDeliveries == 3
NumDuplicates == 2
MaxTime == 3
MaxQueued == 2
NumReaders == 2
MaxInserts == 2

Workers == 1..NumWorkers

-----------------------------------------------------------------------------
(* Message kinds and configuration *)

\* orchestrator config: max_retry_attempts
MaxRetryAttempts == 2

\* worker config: cupid_max_retry_attempts, circuit_breaker_max_failures
MaxRetries == 3
CircuitBreakerMaxFailures == 1

\* initializeServices: MaxRequests: uint32(config.CircuitBreakerMaxFailures)
BreakerMaxRequests == CircuitBreakerMaxFailures

\* ReadyToTrip: counts.ConsecutiveFailures >= 5
TripThreshold == 5

\* RabbitMQConfig.MaxReconnectAttempts
MaxReconnectAttempts == 5

MessageTypeUpdateHotel == "update_hotel"
MessageTypeUpdateReview == "update_review"
MessageTypeUpdateTranslation == "update_translation"
MessageTypeFetchTranslation == "fetch_translation"
MessageTypeFetchReview == "fetch_review"

Kinds == {MessageTypeUpdateHotel, MessageTypeUpdateReview, MessageTypeUpdateTranslation,
          MessageTypeFetchTranslation, MessageTypeFetchReview}

\* worker.ttl: one (lock, cache, next-update) triple per entity class
TTLConfig ==
    [Hotels       |-> [LockSeconds |-> hist.hotelsLock, CacheSeconds |-> 1,
                       NextUpdateSeconds |-> 1],
     Reviews      |-> [LockSeconds |-> 2, CacheSeconds |-> 2, NextUpdateSeconds |-> 2],
     Translations |-> [LockSeconds |-> 2, CacheSeconds |-> 2, NextUpdateSeconds |-> 2]]

getTTLConfigForEntity(messageType) ==
    CASE messageType = MessageTypeUpdateHotel -> TTLConfig.Hotels
      [] messageType = MessageTypeUpdateReview -> TTLConfig.Reviews
      [] messageType = MessageTypeUpdateTranslation -> TTLConfig.Translations
      [] OTHER -> TTLConfig.Hotels

\* The entity class a job kind refreshes (the triple the kind is meant to use)
EntityOf(kind) ==
    CASE kind = MessageTypeUpdateHotel -> "Hotels"
      [] kind \in {MessageTypeUpdateReview, MessageTypeFetchReview} -> "Reviews"
      [] OTHER -> "Translations"

Itoa(n) == CASE n = 0 -> "0" [] n = 1 -> "1" [] n = 2 -> "2" [] n = 3 -> "3"
             [] n = 4 -> "4" [] n = 5 -> "5" [] n = 6 -> "6" [] n = 7 -> "7"
             [] n = 8 -> "8" [] OTHER -> "9"

\* uuid.New().String(): a fresh primary key
NewUuid(n) == "u" \o Itoa(n)

-----------------------------------------------------------------------------
(* Redis: keys with expiry *)

Live(store, key) == store[key] > now

\* A lock that every caller acquires
RedisSetNXAlways(store, key, ttl) ==
    [ok |-> TRUE, store |-> [store EXCEPT ![key] = now + ttl]]

\* SET key value NX EX ttl
RedisSetNX(store, key, ttl) ==
    IF Live(store, key)
    THEN [ok |-> FALSE, store |-> store]
    ELSE [ok |-> TRUE, store |-> [store EXCEPT ![key] = now + ttl]]

\* DEL key
RedisDel(store, key) == [store EXCEPT ![key] = 0]

\* SET key value EX ttl
RedisSet(store, key, ttl) == [store EXCEPT ![key] = now + ttl]

LockKey(id) == "hotel_lock_" \o id

CacheKey(m) ==
    CASE m.type = MessageTypeUpdateHotel -> "hotel_data_" \o m.id
      [] m.type \in {MessageTypeUpdateReview, MessageTypeFetchReview} -> "reviews_data_" \o m.id
      [] OTHER -> "translations_data_" \o m.id

-----------------------------------------------------------------------------
(* Canonical store: discovery queries of the Dispatcher *)

Langs == {"es", "fr"}

\* ORDER BY ... lang ASC on the two configured languages
LangRank(lang) == IF lang = "es" THEN 1 ELSE 2

Min(a, b) == IF a < b THEN a ELSE b
Max(a, b) == IF a > b THEN a ELSE b

\* The possible results of "ORDER BY key ASC LIMIT n" over the row set S:
\* rows with equal keys come in an order the database chooses.
RECURSIVE OrderedLimit(_, _, _)
OrderedLimit(S, key(_), n) ==
    IF n = 0 \/ S = {} THEN {<<>>}
    ELSE LET least == {r \in S : \A q \in S : key(r) <= key(q)}
         IN  UNION {{<<r>> \o t : t \in OrderedLimit(S \ {r}, key, n - 1)} : r \in least}

ByHotelID(r) == r.HotelID * 10
ByHotelIDLang(r) == r.HotelID * 10 + LangRank(r.Lang)

\* A discovery filter without the cursor condition
EligibleAnywhere(r, lastHotelID) ==
    /\ r.next_update_at < now
    /\ r.hotel_id > 0

\* WHERE next_update_at < NOW() AND hotel_id > 0 [AND hotel_id > lastHotelID]
Eligible(r, lastHotelID) ==
    /\ r.next_update_at < now
    /\ r.hotel_id > 0
    /\ (lastHotelID > 0 => r.hotel_id > lastHotelID)

QueryHotelIDsByID(lastHotelID, limit) ==
    OrderedLimit({[ID |-> r.id, HotelID |-> r.hotel_id, Lang |-> ""] :
                      r \in {h \in hotels : Eligible(h, lastHotelID)}},
                 ByHotelID, limit)

QueryReviewIDsByID(lastHotelID, limit) ==
    OrderedLimit({[ID |-> r.id, HotelID |-> r.hotel_id, Lang |-> ""] :
                      r \in {v \in reviews : Eligible(v, lastHotelID)}},
                 ByHotelID, limit)

QueryTranslationIDsByID(lastHotelID, limit) ==
    OrderedLimit({[ID |-> r.id, HotelID |-> r.hotel_id, Lang |-> r.lang] :
                      r \in {t \in translations : Eligible(t, lastHotelID)}},
                 ByHotelIDLang, limit)

\* The hotel/language pairs with no translations row (the UNION ALL of the
\* 'es' and the 'fr' anti-join), ORDER BY sort_key ASC, missing_lang ASC LIMIT n
MissingTranslations(lastHotelID) ==
    {[ID |-> "", HotelID |-> h.hotel_id, Lang |-> l] : h \in
        {x \in hotels : x.hotel_id > 0 /\ (lastHotelID > 0 => x.hotel_id > lastHotelID)},
      l \in Langs} \
    {[ID |-> "", HotelID |-> t.hotel_id, Lang |-> t.lang] : t \in translations}

GetHotelsWithMissingTranslationsRaw(lastHotelID, limit) ==
    OrderedLimit(MissingTranslations(lastHotelID), ByHotelIDLang, limit)

\* Hotels with no reviews row, ORDER BY h.hotel_id ASC LIMIT n
\* The same page without the NOT EXISTS subquery
GetHotelsFromHotelID(lastHotelID, limit) ==
    OrderedLimit({[ID |-> h.id, HotelID |-> h.hotel_id, Lang |-> ""] : h \in
                     {x \in hotels : /\ x.hotel_id > 0
                                     /\ (lastHotelID > 0 => x.hotel_id > lastHotelID)}},
                 ByHotelID, limit)

GetMissingReviewsFromHotelID(lastHotelID, limit) ==
    OrderedLimit({[ID |-> h.id, HotelID |-> h.hotel_id, Lang |-> ""] : h \in
                     {x \in hotels : /\ x.hotel_id > 0
                                     /\ (lastHotelID > 0 => x.hotel_id > lastHotelID)
                                     /\ ~\E r \in reviews : r.hotel_id = x.hotel_id}},
                 ByHotelID, limit)

\* The discovery query processBatch issues for a kind
DiscoveryQuery(messageTypeStr, lastHotelID, limit) ==
    CASE messageTypeStr = MessageTypeUpdateHotel -> QueryHotelIDsByID(lastHotelID, limit)
      [] messageTypeStr = MessageTypeUpdateReview -> QueryReviewIDsByID(lastHotelID, limit)
      [] messageTypeStr = MessageTypeUpdateTranslation -> QueryTranslationIDsByID(lastHotelID, limit)
      [] messageTypeStr = MessageTypeFetchTranslation ->
             GetHotelsWithMissingTranslationsRaw(lastHotelID, limit)
      [] messageTypeStr = MessageTypeFetchReview -> GetMissingReviewsFromHotelID(lastHotelID, limit)
      [] OTHER -> QueryHotelIDsByID(lastHotelID, limit)

\* The queue.Message processBatch builds for one discovered record
JobOf(messageTypeStr, rec) ==
    IF messageTypeStr = MessageTypeFetchTranslation
    THEN [id |-> Itoa(rec.HotelID) \o "_" \o rec.Lang, type |-> messageTypeStr,
          data |-> [hotel_id |-> Itoa(rec.HotelID), lang |-> rec.Lang]]
    ELSE [id |-> rec.ID, type |-> messageTypeStr,
          data |-> [hotel_id |-> Itoa(rec.HotelID), lang |-> ""]]

JobsOfPage(messageTypeStr, page) == [i \in 1..Len(page) |-> JobOf(messageTypeStr, page[i])]

-----------------------------------------------------------------------------
(* Dispatcher: processBatch with PublishWithRetry and PublishBatch inlined *)

\* since: the latest refresh (time.Now() of a completed, successful upsert run)
\* that lies before the start of this dispatch, 0 if none
IdleDispatch == [pc |-> "idle", kind |-> "", batchSize |-> 0, lastHotelID |-> 0,
                 jobs |-> <<>>, idx |-> 0, attempt |-> 0, jobsTotal |-> 0,
                 result |-> "none", faults |-> 0, cancelled |-> FALSE, since |-> 0,
                 queries |-> 0, waits |-> <<>>, err |-> <<>>,
                 plan |-> <<>>, enumerated |-> {}]

\* The error of a failed discovery query (the driver's), as message pieces
QueryError == <<"pq", ":", " connection refused">>

\* A response that reports success whatever processBatch returned
ResponseOK(d) == [Success |-> TRUE, Message |-> <<"jobs enqueued">>, JobsCreated |-> d.jobsTotal]

\* The FetchResponse ProcessFetchRequest builds from what enqueueJobs returned
FetchResponse(d) ==
    IF d.err # <<>>
    THEN [Success |-> FALSE, Message |-> <<"enqueue failed", ":", " ">> \o d.err,
          JobsCreated |-> 0]
    ELSE [Success |-> TRUE, Message |-> <<"jobs enqueued">>, JobsCreated |-> d.jobsTotal]

\* A schedule that doubles from one second
DoublingDelay(attempt) == 2 ^ (attempt - 1)

\* RabbitMQPublisher.backoffDelay, in seconds
backoffDelay(attempt) ==
    CASE attempt = 1 -> 1
      [] attempt = 2 -> 5
      [] attempt = 3 -> 30
      [] attempt = 4 -> 2 * 60
      [] OTHER -> 5 * 60

\* batchSize := config.BatchSize; if batchSize <= 0 { batchSize = 1000 }
EffectiveBatchSize(configured) == IF configured <= 0 THEN 1000 ELSE configured

\* ProcessFetchRequest(kind): processBatch starts with lastHotelID = 0
StartDispatch(kind, configured) ==
    [IdleDispatch EXCEPT !.pc = "query", !.kind = kind,
                         !.batchSize = EffectiveBatchSize(configured)]

\* TriggerFetch(kind) on the Dispatcher: ProcessFetchRequest runs processBatch
TriggerFetch(kind) ==
    /\ dp.pc \in {"idle", "done"}
    /\ Len(queue) < MaxQueued
    /\ \E configured \in 0..MaxBatchSize :
          dp' = [StartDispatch(kind, configured) EXCEPT !.since = hist.refreshed]
    /\ UNCHANGED <<workerVars, rd, clientVars, cn, queue>>

\* One round of the paging loop up to the call of PublishWithRetry: the context
\* check, the discovery query, the break on an empty page, the cursor update
QueryPage ==
    /\ dp.pc = "query"
    /\ IF dp.cancelled
       THEN dp' = [dp EXCEPT !.pc = "done", !.result = "err", !.err = <<"context canceled">>]
       ELSE \E page \in DiscoveryQuery(dp.kind, dp.lastHotelID, dp.batchSize) :
               dp' = IF Len(page) = 0
                     THEN [dp EXCEPT !.pc = "done", !.result = "ok", !.queries = @ + 1]
                     ELSE [dp EXCEPT !.pc = "publish", !.queries = @ + 1,
                                     !.lastHotelID = page[Len(page)].HotelID,
                                     !.jobs = JobsOfPage(dp.kind, page),
                                     !.idx = 1, !.attempt = 1, !.waits = <<>>]
    /\ UNCHANGED <<workerVars, rd, clientVars, cn, queue>>

\* The discovery query returns an error: processBatch returns it
QueryFails ==
    /\ dp.pc = "query"
    /\ dp' = [dp EXCEPT !.pc = "done", !.result = "err", !.queries = @ + 1,
                        !.err = QueryError]
    /\ UNCHANGED <<workerVars, rd, clientVars, cn, queue>>

\* PublishBatch: ch.PublishWithContext of the next message of the page succeeds.
\* After the last message PublishWithRetry returns nil and the loop goes on.
PublishOne ==
    /\ dp.pc = "publish"
    /\ queue' = Append(queue, dp.jobs[dp.idx])
    /\ dp' = IF dp.idx < Len(dp.jobs)
             THEN [dp EXCEPT !.idx = @ + 1]
             ELSE [dp EXCEPT !.pc = "query", !.jobsTotal = @ + Len(dp.jobs),
                             !.jobs = <<>>, !.idx = 0, !.attempt = 0]
    /\ UNCHANGED <<workerVars, rd, clientVars, cn>>

\* PublishBatch: ch.PublishWithContext fails, PublishBatch returns the error;
\* PublishWithRetry waits backoffDelay(attempt), unless the context is done, and
\* publishes the whole page again, up to maxAttempts
PublishFails ==
    /\ dp.pc = "publish"
    /\ dp.faults < MaxPublishFaults
    /\ dp' = IF dp.cancelled
             THEN [dp EXCEPT !.pc = "done", !.result = "err", !.faults = @ + 1,
                             !.err = <<"context canceled", ":", " publish">>]
             ELSE IF dp.attempt + 1 > MaxRetryAttempts
             THEN [dp EXCEPT !.pc = "done", !.result = "err", !.faults = @ + 1,
                             !.err = <<"publish failed after ", Itoa(MaxRetryAttempts),
                                       " attempts", ":", " publish">>,
                             !.waits = Append(@, backoffDelay(dp.attempt))]
             ELSE [dp EXCEPT !.idx = 1, !.attempt = @ + 1, !.faults = @ + 1,
                             !.waits = Append(@, backoffDelay(dp.attempt))]
    /\ UNCHANGED <<workerVars, rd, clientVars, cn, queue>>

\* The kinds runOnce enumerates, in its order
RunOncePlan == <<MessageTypeUpdateHotel, MessageTypeFetchTranslation, MessageTypeFetchReview>>

\* Start: go s.runOnce(ctx); the first processBatch begins
RunOnce ==
    /\ dp.pc = "idle"
    /\ \E configured \in 0..MaxBatchSize :
          dp' = [StartDispatch(Head(RunOncePlan), configured) EXCEPT !.plan = RunOncePlan]
    /\ UNCHANGED <<workerVars, rd, clientVars, cn, queue>>

\* runOnce after a processBatch has returned: return on an error, otherwise go on
\* with the next kind, and return after the last
RunOnceNext ==
    /\ dp.pc = "done"
    /\ dp.plan # <<>>
    /\ dp' = IF dp.result = "err" THEN [dp EXCEPT !.plan = <<>>]
             ELSE IF Tail(dp.plan) = <<>>
             THEN [dp EXCEPT !.plan = <<>>, !.enumerated = @ \cup {dp.kind}]
             ELSE [IdleDispatch EXCEPT !.pc = "query", !.kind = dp.plan[2],
                                       !.batchSize = dp.batchSize,
                                       !.plan = Tail(dp.plan),
                                       !.enumerated = dp.enumerated \cup {dp.kind}]
    /\ UNCHANGED <<workerVars, rd, clientVars, cn, queue>>

\* The caller's context is cancelled
CancelDispatch ==
    /\ dp.pc \in {"query", "publish"}
    /\ ~dp.cancelled
    /\ dp' = [dp EXCEPT !.cancelled = TRUE]
    /\ UNCHANGED <<workerVars, rd, clientVars, cn, queue>>

-----------------------------------------------------------------------------
(* Upstream client: error values *)

\* An error is its message, a sequence of pieces: words, single digits and ":".
\* nil is the empty sequence.
Nil == <<>>

\* %d: the decimal digits of n
RECURSIVE Sprintd(_)
Sprintd(n) == IF n < 10 THEN <<Itoa(n)>> ELSE Sprintd(n \div 10) \o <<Itoa(n % 10)>>

Digits == {Itoa(d) : d \in 0..9}

\* strconv.Atoi: the number a digit string stands for, -1 on a parse error
RECURSIVE StrconvAtoi(_)
StrconvAtoi(str) ==
    IF str = <<>> \/ \E i \in 1..Len(str) : str[i] \notin Digits THEN -1
    ELSE LET d == CHOOSE n \in 0..9 : Itoa(n) = str[Len(str)]
         IN  IF Len(str) = 1 THEN d ELSE 10 * StrconvAtoi(SubSeq(str, 1, Len(str) - 1)) + d

\* fmt.Errorf("HTTP error %d: %s", StatusCode, body)
HTTPError(status) == <<"HTTP error ">> \o Sprintd(status) \o <<":", " body">>

\* fmt.Errorf("HTTP request failed: %s", err)
RequestFailed == <<"HTTP request failed", ":", " connection refused">>

\* gobreaker.ErrOpenState
ErrOpenState == <<"circuit breaker is open">>

\* ctx.Err()
ContextCanceled == <<"context canceled">>

\* fmt.Errorf("rate limiter error: %w", err)
RateLimiterError == <<"rate limiter error", ":", " "  >> \o ContextCanceled

\* fmt.Errorf("operation failed after %d retries: %w", MaxRetries, lastErr)
OperationFailed(lastErr) ==
    <<"operation failed after ">> \o Sprintd(MaxRetries) \o <<" retries", ":", " ">> \o lastErr

\* strings.Split(errStr, ":")[0]
FirstPart(err) ==
    LET colons == {i \in 1..Len(err) : err[i] = ":"}
    IN  IF colons = {} THEN err
        ELSE SubSeq(err, 1, (CHOOSE i \in colons : \A j \in colons : i <= j) - 1)

\* The status code the two classifiers extract from an error message, -1 if none
ParsedStatus(err) ==
    LET httpPart == FirstPart(err)
    IN  IF /\ \E i \in 1..Len(err) : err[i] = "HTTP error "
           /\ httpPart # <<>>
           /\ httpPart[1] = "HTTP error "
        THEN StrconvAtoi(Tail(httpPart))
        ELSE -1

\* A classifier that recognises no error as a 404
Never404(err) == FALSE

is404Error(err) == err # Nil /\ ParsedStatus(err) = 404

RetryableCode == {429, 500, 502, 503, 504}

isRetryableError(err) ==
    /\ err # Nil
    /\ IF ParsedStatus(err) # -1 THEN ParsedStatus(err) \in RetryableCode ELSE TRUE

-----------------------------------------------------------------------------
(* Upstream client: circuit breaker (gobreaker) *)

ClosedBreaker == [state |-> "closed", ConsecutiveFailures |-> 0, ConsecutiveSuccesses |-> 0]

\* A breaker that trips at the second consecutive failure
TripsAtTwo(counts) == counts.ConsecutiveFailures >= 2

ReadyToTrip(counts) == counts.ConsecutiveFailures >= TripThreshold

\* The breaker after a request whose function returned err
AfterRequest(breaker, err) ==
    IF err = Nil
    THEN IF breaker.state = "halfOpen" /\ breaker.ConsecutiveSuccesses + 1 >= BreakerMaxRequests
         THEN ClosedBreaker
         ELSE [breaker EXCEPT !.ConsecutiveSuccesses = @ + 1, !.ConsecutiveFailures = 0]
    ELSE IF breaker.state = "halfOpen"
         THEN [ClosedBreaker EXCEPT !.state = "open"]
         ELSE LET counted == [breaker EXCEPT !.ConsecutiveFailures = @ + 1,
                                             !.ConsecutiveSuccesses = 0]
              IN  IF ReadyToTrip(counted) THEN [ClosedBreaker EXCEPT !.state = "open"]
                  ELSE counted

\* What doHTTPRequest returns for an upstream answer (0 = no answer at all)
doHTTPRequest(answer) ==
    CASE answer = 0 -> RequestFailed
      [] answer >= 400 -> HTTPError(answer)
      [] OTHER -> Nil

\* performRequest behind a breaker that lets the request through: the function
\* handed to Execute reports a 404 as a success and carries the error in its result
performRequest(breaker, answer) ==
    LET httpErr == doHTTPRequest(answer)
        seen == IF is404Error(httpErr) THEN Nil ELSE httpErr
    IN  [cb |-> AfterRequest(breaker, seen), err |-> httpErr]

-----------------------------------------------------------------------------
(* Upstream client: executeWithRetry, one action per operation and per wait *)

Answers == {0, 200, 400, 404} \cup RetryableCode

NoAttempt == [answer |-> -1, err |-> Nil, before |-> ClosedBreaker, after |-> ClosedBreaker]

\* An upstream that is down for two requests and then recovers
UpstreamScript == <<503, 503, 200>>

\* start: the breaker when the call began; script: how many answers of the call
\* have followed UpstreamScript so far, -1 once one has not
IdleClient == [pc |-> "idle", attempt |-> 0, ops |-> 0, lastErr |-> Nil, ret |-> Nil,
               cancelled |-> FALSE, calls |-> 0, onlyRetryable |-> TRUE, last |-> NoAttempt,
               start |-> ClosedBreaker, script |-> 0]

\* A retry loop that runs one iteration too many
LoopOnePastTheBound(attempt) == attempt <= MaxRetries + 1

\* for attempt := 0; attempt <= MaxRetries; attempt++
LoopContinues(attempt) == attempt <= MaxRetries

\* The client after operation() has returned err in iteration cl.attempt
AfterOperation(c, err) ==
    IF err = Nil THEN [c EXCEPT !.pc = "done", !.ret = Nil]
    ELSE IF isRetryableError(err) /\ LoopContinues(c.attempt + 1)
         THEN [c EXCEPT !.pc = "backoff", !.attempt = @ + 1, !.lastErr = err]
         ELSE [c EXCEPT !.pc = "done", !.lastErr = err, !.ret = OperationFailed(err)]

\* makeRequest: a client call begins
StartCall ==
    /\ cl.pc = "idle"
    /\ cl.calls < MaxCalls
    /\ LoopContinues(0)
    /\ cl' = [IdleClient EXCEPT !.pc = "operation", !.calls = cl.calls + 1, !.start = cb]
    /\ UNCHANGED <<workerVars, rd, dispatchVars, cn, cb>>

\* operation(): the request passes the rate limiter and the breaker, and the
\* upstream answers (or the connection fails)
Operation ==
    /\ cl.pc = "operation"
    /\ ~cl.cancelled
    /\ cb.state # "open"
    /\ \E answer \in Answers :
          LET r == performRequest(cb, answer)
          IN  /\ cb' = r.cb
              /\ cl' = [AfterOperation(cl, r.err) EXCEPT
                           !.ops = @ + 1,
                           !.onlyRetryable = @ /\ answer \in RetryableCode,
                           !.script = IF /\ @ >= 0 /\ @ < Len(UpstreamScript)
                                         /\ answer = UpstreamScript[@ + 1]
                                      THEN @ + 1 ELSE -1,
                           !.last = [answer |-> answer, err |-> r.err,
                                     before |-> cb, after |-> r.cb]]
    /\ UNCHANGED <<workerVars, rd, dispatchVars, cn>>

\* operation(): the breaker is open and Execute returns ErrOpenState at once
OperationRejected ==
    /\ cl.pc = "operation"
    /\ ~cl.cancelled
    /\ cb.state = "open"
    /\ cl' = [AfterOperation(cl, ErrOpenState) EXCEPT
                 !.ops = @ + 1,
                 !.last = [NoAttempt EXCEPT !.err = ErrOpenState, !.before = cb, !.after = cb]]
    /\ UNCHANGED <<workerVars, rd, dispatchVars, cn, cb>>

\* operation(): rateLimiter.Wait fails on the cancelled context
OperationCancelled ==
    /\ cl.pc = "operation"
    /\ cl.cancelled
    /\ cl' = [AfterOperation(cl, RateLimiterError) EXCEPT
                 !.ops = @ + 1,
                 !.last = [NoAttempt EXCEPT !.err = RateLimiterError, !.before = cb, !.after = cb]]
    /\ UNCHANGED <<workerVars, rd, dispatchVars, cn, cb>>

\* The backoff wait ends with time.After
BackoffElapsed ==
    /\ cl.pc = "backoff"
    /\ cl' = [cl EXCEPT !.pc = "operation"]
    /\ UNCHANGED <<workerVars, rd, dispatchVars, cn, cb>>

\* The backoff wait ends with ctx.Done: return ctx.Err()
BackoffCancelled ==
    /\ cl.pc = "backoff"
    /\ cl.cancelled
    /\ cl' = [cl EXCEPT !.pc = "done", !.ret = ContextCanceled]
    /\ UNCHANGED <<workerVars, rd, dispatchVars, cn, cb>>

\* The caller's context is cancelled
CancelCall ==
    /\ cl.pc \in {"operation", "backoff"}
    /\ ~cl.cancelled
    /\ cl' = [cl EXCEPT !.cancelled = TRUE]
    /\ UNCHANGED <<workerVars, rd, dispatchVars, cn, cb>>

\* The call has returned; the caller may call again
ReturnCall ==
    /\ cl.pc = "done"
    /\ cl' = [cl EXCEPT !.pc = "idle"]
    /\ UNCHANGED <<workerVars, rd, dispatchVars, cn, cb>>

\* The breaker's Timeout has passed since it opened
BreakerTimeout ==
    /\ cb.state = "open"
    /\ cb' = [ClosedBreaker EXCEPT !.state = "halfOpen"]
    /\ UNCHANGED <<workerVars, rd, dispatchVars, cn, cl>>

\* The breaker's Interval has passed in the closed state: the counts are cleared
BreakerInterval ==
    /\ cb.state = "closed"
    /\ cb # ClosedBreaker
    /\ cb' = ClosedBreaker
    /\ UNCHANGED <<workerVars, rd, dispatchVars, cn, cl>>

-----------------------------------------------------------------------------
(* Queue consumer: connection, reconnect loop and the worker's consume loop *)

\* No consumer constructed
NoConsumer == [broker |-> "up", outages |-> 0, conn |-> "nil", channel |-> "nil",
               who |-> "none", rpc |-> "none", attempt |-> 0,
               consume |-> "none", received |-> 0,
               closed |-> 0, close |-> "none", closeRet |-> <<>>,
               shutdown |-> "none"]

\* NewRabbitMQConsumer has entered connect() = connectWithRetry(MaxReconnectAttempts)
NewRabbitMQConsumer(broker) ==
    [NoConsumer EXCEPT !.broker = broker, !.who = "constructor", !.rpc = "connect",
                       !.attempt = 1]

\* connectWithRetry has returned: the constructor goes on to start the loops and the
\* worker's Start spawns consumeMessages; the reconnect loop goes back to its ticker
Returned(c) ==
    IF c.who = "constructor"
    THEN [c EXCEPT !.who = "reconnectLoop", !.rpc = "ticker", !.attempt = 0,
                   !.consume = "start"]
    ELSE [c EXCEPT !.rpc = "ticker", !.attempt = 0]

\* doConnect succeeds: connection and channel are replaced
DoConnect ==
    /\ cn.rpc = "connect"
    /\ cn.broker = "up"
    /\ cn' = Returned([cn EXCEPT !.conn = "open", !.channel = "open"])
    /\ UNCHANGED <<workerVars, rd, dispatchVars, clientVars>>

\* doConnect fails to dial: wait and try again, or give up after maxAttempts
DoConnectFails ==
    /\ cn.rpc = "connect"
    /\ cn.broker = "down"
    /\ cn' = IF cn.attempt < MaxReconnectAttempts
             THEN [cn EXCEPT !.rpc = "backoff"]
             ELSE Returned(cn)
    /\ UNCHANGED <<workerVars, rd, dispatchVars, clientVars>>

\* The backoff delay of connectWithRetry has passed, or its context is cancelled: the
\* next attempt begins unless the consumer is closed
ConnectBackoff ==
    /\ cn.rpc = "backoff"
    /\ cn' = IF cn.closed = 1
             THEN Returned(cn)
             ELSE [cn EXCEPT !.rpc = "connect", !.attempt = @ + 1]
    /\ UNCHANGED <<workerVars, rd, dispatchVars, clientVars>>

needReconnect == cn.conn = "nil" \/ cn.conn = "closed" \/ cn.channel = "nil"

\* reconnectLoop: a tick of the ticker finds the connection gone
ReconnectTick ==
    /\ cn.who = "reconnectLoop"
    /\ cn.rpc = "ticker"
    /\ cn.closed = 0
    /\ needReconnect
    /\ cn' = [cn EXCEPT !.rpc = "connect", !.attempt = 1]
    /\ UNCHANGED <<workerVars, rd, dispatchVars, clientVars>>

\* consumeMessages calls Consume(): without a usable channel it returns the error
\* and the goroutine ends; otherwise the loop over the deliveries begins
Consume ==
    /\ cn.consume = "start"
    /\ cn' = IF cn.channel = "open" /\ cn.conn = "open"
             THEN [cn EXCEPT !.consume = "consuming"]
             ELSE [cn EXCEPT !.consume = "exited"]
    /\ UNCHANGED <<workerVars, rd, dispatchVars, clientVars>>

\* The consume loop receives a delivery and processes it
Receive ==
    /\ cn.consume = "consuming"
    /\ cn.conn = "open"
    /\ cn.received < MaxReceived
    /\ cn' = [cn EXCEPT !.received = @ + 1]
    /\ UNCHANGED <<workerVars, rd, dispatchVars, clientVars>>

\* The deliveries channel of a lost connection is closed: consumeMessages returns
\* "message channel closed" and the goroutine ends
DeliveriesClosed ==
    /\ cn.consume = "consuming"
    /\ cn.conn = "closed"
    /\ cn' = [cn EXCEPT !.consume = "exited"]
    /\ UNCHANGED <<workerVars, rd, dispatchVars, clientVars>>

\* The broker becomes unreachable: an open connection drops
BrokerDown ==
    /\ cn.who # "none"
    /\ cn.broker = "up"
    /\ cn.outages < MaxOutages
    /\ cn' = [cn EXCEPT !.broker = "down", !.outages = @ + 1,
                        !.conn = IF @ = "open" THEN "closed" ELSE @]
    /\ UNCHANGED <<workerVars, rd, dispatchVars, clientVars>>

\* The broker becomes reachable again
BrokerUp ==
    /\ cn.broker = "down"
    /\ cn' = [cn EXCEPT !.broker = "up"]
    /\ UNCHANGED <<workerVars, rd, dispatchVars, clientVars>>

\* reconnectLoop: the loop returns on a tick that finds the consumer closed, or on
\* its cancelled context
ReconnectLoopExits ==
    /\ cn.who = "reconnectLoop"
    /\ cn.rpc = "ticker"
    /\ cn.closed = 1
    /\ cn' = [cn EXCEPT !.rpc = "stopped"]
    /\ UNCHANGED <<workerVars, rd, dispatchVars, clientVars>>

\* Close, first call: CompareAndSwap(&closed, 0, 1) succeeds and the context is
\* cancelled; the call then waits for the mutex
Close ==
    /\ cn.who = "reconnectLoop"
    /\ cn.close = "none"
    /\ cn.closed = 0
    /\ cn' = [cn EXCEPT !.closed = 1, !.close = "locking"]
    /\ UNCHANGED <<workerVars, rd, dispatchVars, clientVars>>

\* Close, under the mutex: channel and connection are closed (the fields keep
\* pointing at them) and the call returns nil
CloseLocked ==
    /\ cn.close = "locking"
    /\ cn' = [cn EXCEPT !.channel = IF @ = "nil" THEN @ ELSE "closed",
                        !.conn = IF @ = "open" THEN "closed" ELSE @,
                        !.close = "returned",
                        !.closeRet = Append(@, "nil")]
    /\ UNCHANGED <<workerVars, rd, dispatchVars, clientVars>>

\* Close, second call: the CompareAndSwap fails and the call returns nil at once
CloseAgain ==
    /\ cn.close = "returned"
    /\ Len(cn.closeRet) < MaxCloseCalls
    /\ cn' = [cn EXCEPT !.closeRet = Append(@, "nil")]
    /\ UNCHANGED <<workerVars, rd, dispatchVars, clientVars>>

-----------------------------------------------------------------------------
(* Worker: repository and upstream as seen by the per-job pipeline *)

\* strconv.ParseInt of a decimal string (0 stands for a parse error)
Atoi(str) == IF \E n \in 1..9 : Itoa(n) = str THEN CHOOSE n \in 1..9 : Itoa(n) = str ELSE 0

\* The review ids the upstream holds for a hotel, in response order
UpstreamReviews == <<1, 2>>

\* GET /property/reviews/{hotel_id}/{n}: at most n reviews
FetchHotelReviews(reviewCount) == SubSeq(UpstreamReviews, 1, Min(reviewCount, Len(UpstreamReviews)))

\* GormRepository.GetHotelIdByPk: 0 when no row has this primary key
GetHotelIdByPk(id) ==
    IF \E h \in hotels : h.id = id THEN (CHOOSE h \in hotels : h.id = id).hotel_id ELSE 0

GetHotelIdFromReviewByPk(id) ==
    IF \E r \in reviews : r.id = id THEN (CHOOSE r \in reviews : r.id = id).hotel_id ELSE 0

ReviewCountByHotelId(hotelId) == Cardinality({r \in reviews : r.hotel_id = hotelId})

GetLangById(id) ==
    IF \E t \in translations : t.id = id THEN (CHOOSE t \in translations : t.id = id).lang ELSE ""

\* The rows of a table that carry an entity's identity
RowsOf(table, ent) ==
    CASE table = "Hotels" -> {x \in hotels : x.hotel_id = ent.hotel_id}
      [] table = "Reviews" -> {x \in reviews : x.review_id = ent.review_id}
      [] OTHER -> {x \in translations : x.hotel_id = ent.hotel_id /\ x.lang = ent.lang}

\* The primary keys the upsert's lookup can return ("" = gorm.ErrRecordNotFound)
LookupIds(table, ent) ==
    IF RowsOf(table, ent) = {} THEN {""} ELSE {r.id : r \in RowsOf(table, ent)}

\* BeforeCreate hook of HotelData / ReviewData / HotelTranslation: the row is
\* inserted with CreatedAt = NextUpdateAt = time.Now()
BeforeCreate(ent, uuid) ==
    [ent EXCEPT !.id = IF @ = "" THEN uuid ELSE @, !.created_at = now,
                !.next_update_at = now]

\* What the upsert makes of the mapped entity once its lookup has returned id:
\* UpsertHotel and UpsertHotelTranslations copy ID and CreatedAt of the row found,
\* the reviews loop copies the ID only
Found(table, ent, id) ==
    IF id = "" THEN ent
    ELSE IF table = "Reviews" THEN [ent EXCEPT !.id = id]
    ELSE [ent EXCEPT !.id = id,
                     !.created_at = (CHOOSE r \in RowsOf(table, ent) : r.id = id).created_at]

\* db.Save of a row whose primary key is set: UPDATE ... WHERE id = ?
SaveRow(rows, ent) == {r \in rows : r.id # ent.id} \cup {ent}

IdleWorker == [pc |-> "idle", cur |-> 0, res |-> "none", hotelId |-> 0, lang |-> "",
               reviewCount |-> 0, todo |-> <<>>, ent |-> [id |-> ""], stamp |-> 0,
               acqAt |-> 0, called |-> FALSE, done |-> <<>>,
               acquired |-> "none", status |-> 0, cached |-> FALSE, released |-> "no",
               found |-> FALSE, getErr |-> FALSE, setErr |-> FALSE]

\* The store without the columns a refresh is meant to change (updated_at is not
\* modelled, next_update_at is blanked), and the value under the job's cache key
NoSnapshot == [taken |-> FALSE, hotels |-> {}, reviews |-> {}, translations |-> {},
               blob |-> <<>>]

Stripped(rows) == {[r EXCEPT !.next_update_at = 0] : r \in rows}

Snapshot(blob) == [taken |-> TRUE, hotels |-> Stripped(hotels), reviews |-> Stripped(reviews),
                   translations |-> Stripped(translations), blob |-> blob]

\* blob: the response last written under the job's cache key; snap: store and
\* cache value as they were when the first run of the job had returned
\* refreshed: the latest time.Now() a completed, successful run stamped its upsert with
NoHist == [calls |-> 0, svcErr |-> FALSE, lateGet |-> FALSE, wroteInTime |-> FALSE,
           blob |-> <<>>, snap |-> NoSnapshot, refreshed |-> 0, hotelsLock |-> 1]

\* An answer that requeues the failed message
AnswerRequeue(ret) ==
    IF ret = "err" THEN [op |-> "nack", requeue |-> TRUE, ret |-> ret]
    ELSE [op |-> "ack", requeue |-> FALSE, ret |-> ret]

\* Ack on a nil return of processMessage, Nack(multiple=false, requeue=false) on an error
AnswerOf(ret) ==
    IF ret = "err" THEN [op |-> "nack", requeue |-> FALSE, ret |-> ret]
    ELSE [op |-> "ack", requeue |-> FALSE, ret |-> ret]

With(w, fields) == [wk EXCEPT ![w] = fields]

\* The TTL triple a handler reads for the next-update deadline and the cache TTL
HandlerTTL(messageType) ==
    CASE EntityOf(messageType) = "Hotels" -> getTTLConfigForEntity(messageType)
      [] EntityOf(messageType) = "Reviews" -> getTTLConfigForEntity("reviews")
      [] OTHER -> getTTLConfigForEntity("translations")

\* The entities the upstream response of a job maps to; the time fields are Go's
\* zero time (0) until the handler, the upsert or a hook sets them
Mapped(w) ==
    LET m == msg[wk[w].cur]
        revs == FetchHotelReviews(wk[w].reviewCount)
    IN  CASE EntityOf(m.type) = "Hotels" ->
               <<[id |-> "", hotel_id |-> wk[w].hotelId, created_at |-> 0,
                  next_update_at |-> 0]>>
          [] EntityOf(m.type) = "Reviews" ->
               [i \in 1..Len(revs) |-> [id |-> "", hotel_id |-> wk[w].hotelId,
                                        review_id |-> revs[i], created_at |-> 0,
                                        next_update_at |-> 0]]
          [] OTHER ->
               <<[id |-> "", hotel_id |-> wk[w].hotelId, lang |-> wk[w].lang,
                  created_at |-> 0, next_update_at |-> 0]>>

-----------------------------------------------------------------------------
(* Worker: consumeMessages / processMessage, one action per I/O step *)

\* The next delivery of the queue arrives on the consume loop of worker w
Deliver(w) ==
    /\ wk[w].pc = "idle"
    /\ ready # {}
    /\ LET d == CHOOSE x \in ready : \A e \in ready : x <= e
       IN  /\ ready' = ready \ {d}
           /\ wk' = With(w, [IdleWorker EXCEPT !.pc = "acquire", !.cur = d])
    /\ UNCHANGED <<nonWorkerVars, now, storeVars, redisVars, msg, answers, hist, firstWinner>>

\* A processMessage that defers the Release before it looks at Acquire's result
AcquireThenDefer(w) ==
    LET d == wk[w].cur
        m == msg[d]
        lockTTL == getTTLConfigForEntity(m.type).LockSeconds
        r == RedisSetNX(lockExp, LockKey(m.id), lockTTL)
    IN  /\ wk[w].pc = "acquire"
        /\ lockExp' = r.store
        /\ wk' = With(w, IF r.ok THEN [wk[w] EXCEPT !.pc = "cacheGet", !.acqAt = now,
                                                    !.acquired = "true"]
                         ELSE [wk[w] EXCEPT !.pc = "release", !.res = "ok",
                                            !.acquired = "false"])
        /\ firstWinner' = IF r.ok /\ firstWinner = 0 THEN d ELSE firstWinner
        /\ UNCHANGED <<nonWorkerVars, now, storeVars, cacheExp, queueVars, hist>>

\* redisLock.Acquire(lockKey, lockTTL) returns: not locked means skip, locked means
\* the handler of the message type runs
Acquire(w) ==
    LET d == wk[w].cur
        m == msg[d]
        lockTTL == getTTLConfigForEntity(m.type).LockSeconds
        r == RedisSetNX(lockExp, LockKey(m.id), lockTTL)
    IN  /\ wk[w].pc = "acquire"
        /\ lockExp' = r.store
        /\ wk' = With(w, IF r.ok THEN [wk[w] EXCEPT !.pc = "cacheGet", !.acqAt = now,
                                                    !.acquired = "true"]
                         ELSE [wk[w] EXCEPT !.pc = "answer", !.res = "ok",
                                            !.acquired = "false"])
        /\ firstWinner' = IF r.ok /\ firstWinner = 0 THEN d ELSE firstWinner
        /\ UNCHANGED <<nonWorkerVars, now, storeVars, cacheExp, queueVars, hist>>

\* redisLock.Acquire fails: "failed to acquire lock"
AcquireFails(w) ==
    /\ wk[w].pc = "acquire"
    /\ wk' = With(w, [wk[w] EXCEPT !.pc = "answer", !.res = "err", !.acquired = "err"])
    /\ hist' = [hist EXCEPT !.svcErr = TRUE]
    /\ UNCHANGED <<nonWorkerVars, now, storeVars, redisVars, queueVars, firstWinner>>

\* A handler that reads the cache and goes on whatever it found
CacheGetThenGoOn(w) ==
    LET m == msg[wk[w].cur]
        hit == Live(cacheExp, CacheKey(m))
    IN  /\ wk[w].pc = "cacheGet"
        /\ wk' = With(w, [wk[w] EXCEPT !.pc = "resolve", !.found = hit])
        /\ hist' = [hist EXCEPT !.lateGet = @ \/ (~hit /\ cacheExp[CacheKey(m)] # 0)]
        /\ UNCHANGED <<nonWorkerVars, now, storeVars, redisVars, queueVars, firstWinner>>

\* redisCache.Get(cacheKey): a hit ends the handler, a miss goes on
CacheGet(w) ==
    LET m == msg[wk[w].cur]
        hit == Live(cacheExp, CacheKey(m))
    IN  /\ wk[w].pc = "cacheGet"
        /\ wk' = With(w, IF hit THEN [wk[w] EXCEPT !.pc = "release", !.res = "ok",
                                                    !.found = TRUE]
                         ELSE [wk[w] EXCEPT !.pc = "resolve"])
        /\ hist' = [hist EXCEPT !.lateGet = @ \/ (~hit /\ cacheExp[CacheKey(m)] # 0)]
        /\ UNCHANGED <<nonWorkerVars, now, storeVars, redisVars, queueVars, firstWinner>>

\* redisCache.Get fails: the handler goes on as on a miss
CacheGetFails(w) ==
    /\ wk[w].pc = "cacheGet"
    /\ wk' = With(w, [wk[w] EXCEPT !.pc = "resolve", !.getErr = TRUE])
    /\ hist' = [hist EXCEPT !.svcErr = TRUE]
    /\ UNCHANGED <<nonWorkerVars, now, storeVars, redisVars, queueVars, firstWinner>>

\* Step 4 of the pipeline: the identity the upstream call needs
Resolve(w) ==
    LET d == wk[w].cur
        m == msg[d]
        hid == GetHotelIdFromReviewByPk(m.id)
        lang == IF m.type = MessageTypeFetchTranslation THEN m.data.lang ELSE GetLangById(m.id)
    IN  /\ wk[w].pc = "resolve"
        /\ wk' = With(w,
             CASE m.type = MessageTypeUpdateHotel ->
                    [wk[w] EXCEPT !.pc = "fetch", !.hotelId = GetHotelIdByPk(m.id)]
               [] m.type = MessageTypeFetchReview ->
                    IF Atoi(m.data.hotel_id) = 0
                    THEN [wk[w] EXCEPT !.pc = "release", !.res = "err"]
                    ELSE [wk[w] EXCEPT !.pc = "fetch", !.hotelId = Atoi(m.data.hotel_id),
                                       !.reviewCount = 10]
               [] m.type = MessageTypeUpdateReview ->
                    IF hid = 0 \/ ReviewCountByHotelId(hid) = 0
                    THEN [wk[w] EXCEPT !.pc = "release", !.res = "ok"]
                    ELSE [wk[w] EXCEPT !.pc = "fetch", !.hotelId = hid,
                                       !.reviewCount = ReviewCountByHotelId(hid)]
               [] OTHER ->
                    IF lang = ""
                    THEN [wk[w] EXCEPT !.pc = "release", !.res = "err"]
                    ELSE [wk[w] EXCEPT !.pc = "fetch", !.hotelId = Atoi(m.data.hotel_id),
                                       !.lang = lang])
        /\ UNCHANGED <<nonWorkerVars, now, storeVars, redisVars, queueVars, hist, firstWinner>>

\* cupidAPI.Fetch... answers with the entity: one client call
Fetch(w) ==
    /\ wk[w].pc = "fetch"
    /\ wk[w].hotelId > 0
    /\ hist' = [hist EXCEPT !.calls = @ + 1]
    /\ wk' = With(w, [wk[w] EXCEPT !.pc = "lookup", !.todo = Mapped(w), !.called = TRUE,
                                   !.status = 200])
    /\ UNCHANGED <<nonWorkerVars, now, storeVars, redisVars, queueVars, firstWinner>>

\* cupidAPI.Fetch... returns an error (the upstream answered 404, or kept answering
\* 503 until the retries ran out): the handler returns it
FetchFails(w) ==
    /\ wk[w].pc = "fetch"
    /\ hist' = [hist EXCEPT !.calls = @ + 1]
    /\ \E status \in {404, 503} :
          wk' = With(w, [wk[w] EXCEPT !.pc = "release", !.res = "err", !.called = TRUE,
                                     !.status = status])
    /\ UNCHANGED <<nonWorkerVars, now, storeVars, redisVars, queueVars, firstWinner>>

\* NextUpdateAt = time.Now() + next_update_seconds, then the upsert's lookup
Lookup(w) ==
    LET m == msg[wk[w].cur]
        e == [Head(wk[w].todo) EXCEPT
                 !.next_update_at = now + HandlerTTL(m.type).NextUpdateSeconds]
    IN  /\ wk[w].pc = "lookup"
        /\ \E id \in LookupIds(EntityOf(m.type), e) :
              wk' = With(w, [wk[w] EXCEPT !.pc = "write", !.stamp = now,
                                          !.ent = Found(EntityOf(m.type), e, id)])
        /\ UNCHANGED <<nonWorkerVars, now, storeVars, redisVars, queueVars, hist, firstWinner>>

\* The lookup fails: reviews fall through to Create, the other upserts return the error
LookupFails(w) ==
    LET m == msg[wk[w].cur]
        e == [Head(wk[w].todo) EXCEPT
                 !.next_update_at = now + HandlerTTL(m.type).NextUpdateSeconds]
    IN  /\ wk[w].pc = "lookup"
        /\ wk' = With(w, IF EntityOf(m.type) = "Reviews"
                         THEN [wk[w] EXCEPT !.pc = "write", !.stamp = now, !.ent = e]
                         ELSE [wk[w] EXCEPT !.pc = "release", !.res = "err"])
        /\ UNCHANGED <<nonWorkerVars, now, storeVars, redisVars, queueVars, hist, firstWinner>>

\* A schema without the unique index on reviews(review_id)
NoUniqueIndex(table, row) == FALSE

\* reviews(review_id) carries a unique index: a second insert of a review_id fails
UniqueViolation(table, row) ==
    table = "Reviews" /\ \E r \in reviews : r.review_id = row.review_id

\* db.Save of the row found, or db.Create of a new row
Write(w) ==
    LET m == msg[wk[w].cur]
        table == EntityOf(m.type)
        creating == wk[w].ent.id = ""
        row == IF creating THEN BeforeCreate(wk[w].ent, NewUuid(nextUuid + 1)) ELSE wk[w].ent
        rest == Tail(wk[w].todo)
    IN  /\ wk[w].pc = "write"
        /\ ~(creating /\ UniqueViolation(table, row))
        /\ wk' = With(w, [wk[w] EXCEPT !.pc = IF rest = <<>> THEN "cacheSet" ELSE "lookup",
                                       !.todo = rest, !.ent = [id |-> ""],
                                       !.done = Append(@, [id |-> row.id,
                                                           stamp |-> wk[w].stamp])])
        /\ nextUuid' = IF creating THEN nextUuid + 1 ELSE nextUuid
        /\ hotels' = IF table = "Hotels" THEN SaveRow(hotels, row) ELSE hotels
        /\ reviews' = IF table = "Reviews" THEN SaveRow(reviews, row) ELSE reviews
        /\ translations' = IF table = "Translations" THEN SaveRow(translations, row)
                           ELSE translations
        /\ UNCHANGED <<nonWorkerVars, now, redisVars, queueVars, hist, firstWinner>>

\* The write fails (a database error, or the unique index on review_id)
WriteFails(w) ==
    /\ wk[w].pc = "write"
    /\ wk' = With(w, [wk[w] EXCEPT !.pc = "release", !.res = "err"])
    /\ UNCHANGED <<nonWorkerVars, now, storeVars, redisVars, queueVars, hist, firstWinner>>

\* db.Create of a review whose review_id another run has inserted meanwhile: the
\* unique index rejects it and the handler returns "failed to create review"
CreateRejected(w) ==
    /\ wk[w].pc = "write"
    /\ wk[w].ent.id = ""
    /\ UniqueViolation(EntityOf(msg[wk[w].cur].type), wk[w].ent)
    /\ wk' = With(w, [wk[w] EXCEPT !.pc = "release", !.res = "err"])
    /\ UNCHANGED <<nonWorkerVars, now, storeVars, redisVars, queueVars, hist, firstWinner>>

\* redisCache.Set(cacheKey, response, cacheTTL), then the handler returns nil
CacheSet(w) ==
    LET d == wk[w].cur
        m == msg[d]
        lockTTL == getTTLConfigForEntity(m.type).LockSeconds
    IN  /\ wk[w].pc = "cacheSet"
        /\ wk' = With(w, [wk[w] EXCEPT !.pc = "release", !.res = "ok", !.cached = TRUE])
        /\ cacheExp' = RedisSet(cacheExp, CacheKey(m), HandlerTTL(m.type).CacheSeconds)
        /\ hist' = [hist EXCEPT !.wroteInTime =
                        @ \/ (d = firstWinner /\ now < wk[w].acqAt + lockTTL),
                                !.blob = Mapped(w)]
        /\ UNCHANGED <<nonWorkerVars, now, storeVars, lockExp, queueVars, firstWinner>>

\* A handler that returns the error of redisCache.Set
CacheSetErrorReturned(w) ==
    /\ wk[w].pc = "cacheSet"
    /\ wk' = With(w, [wk[w] EXCEPT !.pc = "release", !.res = "err", !.setErr = TRUE])
    /\ hist' = [hist EXCEPT !.svcErr = TRUE]
    /\ UNCHANGED <<nonWorkerVars, now, storeVars, redisVars, queueVars, firstWinner>>

\* redisCache.Set fails: only a warning, the handler still returns nil
CacheSetFails(w) ==
    /\ wk[w].pc = "cacheSet"
    /\ wk' = With(w, [wk[w] EXCEPT !.pc = "release", !.res = "ok", !.setErr = TRUE])
    /\ hist' = [hist EXCEPT !.svcErr = TRUE]
    /\ UNCHANGED <<nonWorkerVars, now, storeVars, redisVars, queueVars, firstWinner>>

\* A handler whose return skips the Release
ReturnWithoutRelease(w) ==
    /\ wk[w].pc = "release"
    /\ wk' = With(w, [wk[w] EXCEPT !.pc = "answer"])
    /\ UNCHANGED <<nonWorkerVars, now, storeVars, redisVars, queueVars, hist, firstWinner>>

\* The deferred redisLock.Release(lockKey)
Release(w) ==
    /\ wk[w].pc = "release"
    /\ wk' = With(w, [wk[w] EXCEPT !.pc = "answer", !.released = "ok"])
    /\ lockExp' = RedisDel(lockExp, LockKey(msg[wk[w].cur].id))
    /\ UNCHANGED <<nonWorkerVars, now, storeVars, cacheExp, queueVars, hist, firstWinner>>

\* The deferred Release fails: only logged
ReleaseFails(w) ==
    /\ wk[w].pc = "release"
    /\ wk' = With(w, [wk[w] EXCEPT !.pc = "answer", !.released = "failed"])
    /\ hist' = [hist EXCEPT !.svcErr = TRUE]
    /\ UNCHANGED <<nonWorkerVars, now, storeVars, redisVars, queueVars, firstWinner>>

\* consumeMessages answers the delivery after processMessage has returned
Answer(w) ==
    LET d == wk[w].cur
    IN  /\ wk[w].pc = "answer"
        /\ answers' = [answers EXCEPT ![d] = Append(@, AnswerOf(wk[w].res))]
        /\ ready' = IF AnswerOf(wk[w].res).requeue THEN ready \cup {d} ELSE ready
        /\ wk' = With(w, IdleWorker)
        /\ hist' = [hist EXCEPT
                       !.snap = IF @.taken THEN @ ELSE Snapshot(hist.blob),
                       !.refreshed = IF wk[w].res = "ok" /\ wk[w].done # <<>>
                                     THEN Max(@, wk[w].done[Len(wk[w].done)].stamp)
                                     ELSE @]
        /\ UNCHANGED <<nonWorkerVars, now, storeVars, redisVars, msg, firstWinner>>

Tick ==
    /\ now < MaxTime
    /\ now' = now + 1
    /\ UNCHANGED <<nonWorkerVars, storeVars, redisVars, queueVars, hist, firstWinner, wk>>

-----------------------------------------------------------------------------
(* Read API: GetHotelByIDUseCase.Execute, one action per I/O step *)

\* cache.Set(ctx, cacheKey, hotelData, 5*time.Minute), in seconds
ReadCacheSeconds == 300

ReadCacheKey(hotelID) == "hotel:" \o Itoa(hotelID)

\* index: the indexHotel goroutine of the request (none, spawned by the go
\* statement, started once it calls searchEngine.UpdateHotel); writes: the
\* request's writes in the order they happened
IdleReader == [pc |-> "idle", hotelID |-> 0, ret |-> "none", index |-> "none", writes |-> <<>>]

readFrame == <<dispatchVars, clientVars, cn, now, reviews, translations, lockExp,
               queueVars, hist, firstWinner, wk>>

\* Request r, a GET /hotels/{id}, arrives: a cached hotel is returned at once; a miss or a failed
\* cache read goes to the store
GetHotelByID(r) ==
    /\ rd[r].pc = "idle"
    /\ \E hotelID \in 1..MaxHotelID, hit \in BOOLEAN :
          /\ hit => Live(cacheExp, ReadCacheKey(hotelID))
          /\ rd' = [rd EXCEPT ![r] = [IdleReader EXCEPT !.pc = IF hit THEN "done" ELSE "find",
                                                        !.hotelID = hotelID,
                                                        !.ret = IF hit THEN "ok" ELSE "none"]]
    /\ UNCHANGED <<readFrame, hotels, nextUuid, cacheExp>>

\* hotelRepo.FindByHotelID: a row found is cached and returned; no row means the
\* fallback to the upstream
FindByHotelID(r) ==
    /\ rd[r].pc = "find"
    /\ IF \E h \in hotels : h.hotel_id = rd[r].hotelID
       THEN /\ rd' = [rd EXCEPT ![r] = [rd[r] EXCEPT !.pc = "done", !.ret = "ok",
                                                     !.writes = Append(@, "cache"),
                                                     !.index = "spawned"]]
            /\ cacheExp' = RedisSet(cacheExp, ReadCacheKey(rd[r].hotelID), ReadCacheSeconds)
       ELSE /\ rd' = [rd EXCEPT ![r] = [rd[r] EXCEPT !.pc = "provider"]]
            /\ UNCHANGED cacheExp
    /\ UNCHANGED <<readFrame, hotels, nextUuid>>

\* FindByHotelID returns an error: it is logged and the fallback runs all the same
FindByHotelIDFails(r) ==
    /\ rd[r].pc = "find"
    /\ rd' = [rd EXCEPT ![r] = [rd[r] EXCEPT !.pc = "provider"]]
    /\ UNCHANGED <<readFrame, hotels, nextUuid, cacheExp>>

\* hotelProvider.GetHotelByID answers with the hotel (reviews and translations are
\* fetched into the response only)
ProviderGetHotelByID(r) ==
    /\ rd[r].pc = "provider"
    /\ rd' = [rd EXCEPT ![r] = [rd[r] EXCEPT !.pc = "save"]]
    /\ UNCHANGED <<readFrame, hotels, nextUuid, cacheExp>>

\* hotelProvider.GetHotelByID fails: Execute returns the error
ProviderGetHotelByIDFails(r) ==
    /\ rd[r].pc = "provider"
    /\ rd' = [rd EXCEPT ![r] = [rd[r] EXCEPT !.pc = "done", !.ret = "err"]]
    /\ UNCHANGED <<readFrame, hotels, nextUuid, cacheExp>>

\* hotelRepo.Save: db.Create of the converted hotel, whose ID is empty; the next
\* statement is go indexHotel(*externalHotel)
Save(r) ==
    /\ rd[r].pc = "save"
    /\ nextUuid < MaxInserts
    /\ hotels' = hotels \cup
                    {BeforeCreate([id |-> "", hotel_id |-> rd[r].hotelID, created_at |-> now,
                                   next_update_at |-> 0], NewUuid(nextUuid + 1))}
    /\ nextUuid' = nextUuid + 1
    /\ rd' = [rd EXCEPT ![r] = [rd[r] EXCEPT !.pc = "cache", !.writes = Append(@, "save"),
                                          !.index = "spawned"]]
    /\ UNCHANGED <<readFrame, cacheExp>>

\* hotelRepo.Save fails: logged, the hotel is still cached and returned
SaveFails(r) ==
    /\ rd[r].pc = "save"
    /\ rd' = [rd EXCEPT ![r] = [rd[r] EXCEPT !.pc = "cache", !.index = "spawned"]]
    /\ UNCHANGED <<readFrame, hotels, nextUuid, cacheExp>>

\* cache.Set of the fetched hotel, then Execute returns it
CacheFetchedHotel(r) ==
    /\ rd[r].pc = "cache"
    /\ cacheExp' = RedisSet(cacheExp, ReadCacheKey(rd[r].hotelID), ReadCacheSeconds)
    /\ rd' = [rd EXCEPT ![r] = [rd[r] EXCEPT !.pc = "done", !.ret = "ok",
                                          !.writes = Append(@, "cache")]]
    /\ UNCHANGED <<readFrame, hotels, nextUuid>>

\* The indexHotel goroutine runs: searchEngine.UpdateHotel is called
indexHotel(r) ==
    /\ rd[r].index = "spawned"
    /\ rd' = [rd EXCEPT ![r] = [rd[r] EXCEPT !.index = "started",
                                          !.writes = Append(@, "index")]]
    /\ UNCHANGED <<readFrame, hotels, nextUuid, cacheExp>>

-----------------------------------------------------------------------------
(* The worker pool: duplicate deliveries of one job over a small store *)

Hotel1 == [id |-> "h1", hotel_id |-> 1, created_at |-> 1, next_update_at |-> 0]
Review1 == [id |-> "r1", hotel_id |-> 1, review_id |-> 1, created_at |-> 1, next_update_at |-> 0]
Translation1 ==
    [id |-> "t1", hotel_id |-> 1, lang |-> "es", created_at |-> 1, next_update_at |-> 0]

\* Every job a dispatch of the kind would enqueue over the current store
JobsOfKind(kind) ==
    UNION {{JobOf(kind, page[i]) : i \in 1..Len(page)} : page \in DiscoveryQuery(kind, 0, 8)}

InitWorkers(nDeliveries) ==
    /\ now = 1
    /\ hotels = {Hotel1}
    /\ \E full \in BOOLEAN :
          /\ reviews = IF full THEN {Review1} ELSE {}
          /\ translations = IF full THEN {Translation1} ELSE {}
    /\ nextUuid = 0
    /\ \E kind \in Kinds : \E job \in JobsOfKind(kind) : msg = [d \in 1..nDeliveries |-> job]
    /\ lockExp = [k \in {LockKey(msg[d].id) : d \in 1..nDeliveries} |-> 0]
    /\ cacheExp = [k \in {CacheKey(msg[d]) : d \in 1..nDeliveries} |-> 0]
    /\ ready = 1..nDeliveries
    /\ answers = [d \in 1..nDeliveries |-> <<>>]
    /\ hist = NoHist
    /\ firstWinner = 0
    /\ wk = [w \in Workers |-> IdleWorker]
    /\ dp = IdleDispatch
    /\ queue = <<>>
    /\ cl = IdleClient
    /\ cb = ClosedBreaker
    /\ cn = NoConsumer
    /\ rd = [r \in 1..NumReaders |-> IdleReader]

Init == InitWorkers(NumDeliveries)

Step(w) ==
    \/ Deliver(w)
    \/ Acquire(w)
    \/ CacheGet(w)
    \/ Resolve(w)
    \/ Fetch(w)
    \/ FetchFails(w)
    \/ Lookup(w)
    \/ Write(w)
    \/ CacheSet(w)
    \/ Release(w)
    \/ Answer(w)

\* A step in which Redis or the database fails
Fault(w) ==
    \/ AcquireFails(w)
    \/ CacheGetFails(w)
    \/ LookupFails(w)
    \/ WriteFails(w)
    \/ CacheSetFails(w)
    \/ ReleaseFails(w)

Next == (\E w \in Workers : Step(w) \/ CreateRejected(w)) \/ Tick

Spec == Init /\ [][Next]_vars

\* The same job delivered twice to the pool, with Redis and the database failing at will
InitDup == InitWorkers(NumDuplicates)

NextDup == (\E w \in Workers : Step(w) \/ Fault(w)) \/ Tick

SpecDup == InitDup /\ [][NextDup]_vars

\* One job handled by a single worker whose Release can fail and which can stall
\* for good at any point, with worker.ttl.hotels.lock_seconds below or above the
\* lock_seconds of reviews and translations
InitExpiry ==
    /\ now = 1
    /\ hotels = {Hotel1}
    /\ \E full \in BOOLEAN :
          /\ reviews = IF full THEN {Review1} ELSE {}
          /\ translations = IF full THEN {Translation1} ELSE {}
    /\ nextUuid = 0
    /\ \E kind \in Kinds : \E job \in JobsOfKind(kind) :
          msg = [d \in 1..NumDuplicates |-> job]
    /\ lockExp = [k \in {LockKey(msg[d].id) : d \in 1..NumDuplicates} |-> 0]
    /\ cacheExp = [k \in {CacheKey(msg[d]) : d \in 1..NumDuplicates} |-> 0]
    /\ ready = 1..NumDuplicates
    /\ answers = [d \in 1..NumDuplicates |-> <<>>]
    /\ \E secs \in {1, MaxTime} : hist = [NoHist EXCEPT !.hotelsLock = secs]
    /\ firstWinner = 0
    /\ wk = [w \in Workers |-> IdleWorker]
    /\ dp = IdleDispatch
    /\ queue = <<>>
    /\ cl = IdleClient
    /\ cb = ClosedBreaker
    /\ cn = NoConsumer
    /\ rd = [r \in 1..NumReaders |-> IdleReader]

NextExpiry == Step(1) \/ ReleaseFails(1) \/ Tick

SpecExpiry == InitExpiry /\ [][NextExpiry]_vars

\* A consumer that is connected and whose consume loop is receiving
Consuming ==
    [NoConsumer EXCEPT !.conn = "open", !.channel = "open", !.who = "reconnectLoop",
                       !.rpc = "ticker", !.consume = "consuming"]

\* Start: the signal arrives and shutdown() calls messageProcessor.cancel()
Shutdown ==
    /\ cn.shutdown = "none"
    /\ cn' = [cn EXCEPT !.shutdown = "cancelled"]
    /\ UNCHANGED <<workerVars, rd, dispatchVars, clientVars>>

\* shutdown(): rabbitMQConsumer.Close() is called after the cancel
ShutdownClose == cn.shutdown = "cancelled" /\ Close

\* shutdown() has closed the consumer and the Redis clients and returns; Start and
\* main return and the process ends with its consume goroutine wherever it is
Exit ==
    /\ cn.shutdown = "cancelled"
    /\ cn.close = "returned"
    /\ cn' = [cn EXCEPT !.shutdown = "exited"]
    /\ UNCHANGED <<workerVars, rd, dispatchVars, clientVars>>

\* A call of the run on Redis, the database or the upstream returns normally
CallReturns(w) ==
    \/ Acquire(w) \/ CacheGet(w) \/ Resolve(w) \/ Fetch(w)
    \/ Lookup(w) \/ Write(w) \/ CacheSet(w) \/ Release(w)

\* A call made with the cancelled context of the MessageProcessor returns the
\* context's error
CallCancelled(w) ==
    /\ cn.shutdown = "cancelled"
    /\ (Fault(w) \/ FetchFails(w))

\* The delivery's Ack or Nack cannot be sent on the closed channel (the error is
\* dropped): the delivery stays unacknowledged and the broker requeues it
AnswerLost(w) ==
    /\ wk[w].pc = "answer"
    /\ cn.channel # "open"
    /\ ready' = ready \cup {wk[w].cur}
    /\ wk' = With(w, IdleWorker)
    /\ UNCHANGED <<nonWorkerVars, now, storeVars, redisVars, msg, answers, hist, firstWinner>>

\* One worker process that is handling a delivery when the signal arrives
InitShutdown ==
    /\ now = 1
    /\ hotels = {Hotel1}
    /\ \E full \in BOOLEAN :
          /\ reviews = IF full THEN {Review1} ELSE {}
          /\ translations = IF full THEN {Translation1} ELSE {}
    /\ nextUuid = 0
    /\ \E kind \in Kinds : \E job \in JobsOfKind(kind) : msg = <<job>>
    /\ lockExp = [k \in {LockKey(msg[1].id)} |-> 0]
    /\ cacheExp = [k \in {CacheKey(msg[1])} |-> 0]
    /\ ready = {1}
    /\ answers = <<<<>>>>
    /\ hist = NoHist
    /\ firstWinner = 0
    /\ wk = [w \in Workers |-> IdleWorker]
    /\ dp = IdleDispatch
    /\ queue = <<>>
    /\ cl = IdleClient
    /\ cb = ClosedBreaker
    /\ cn = Consuming
    /\ rd = [r \in 1..NumReaders |-> IdleReader]

NextShutdown ==
    \/ (cn.shutdown = "none" /\ Deliver(1))
    \/ (cn.shutdown # "exited" /\ CallReturns(1))
    \/ CallCancelled(1)
    \/ (cn.shutdown # "exited" /\ cn.channel = "open" /\ Answer(1))
    \/ (cn.shutdown # "exited" /\ AnswerLost(1))
    \/ Shutdown
    \/ ShutdownClose
    \/ CloseLocked
    \/ Exit

SpecShutdown == InitShutdown /\ [][NextShutdown]_vars

\* A second review of hotel 1
Review2 == [Review1 EXCEPT !.id = "r2", !.review_id = 2]

\* Every job the dispatches of the five kinds would enqueue over the current store
AllJobs == UNION {JobsOfKind(kind) : kind \in Kinds}

\* Two different jobs of the scheduler's ticks delivered to the pool: hotel 1 with
\* no or two due reviews rows and one translations row
InitTicks ==
    /\ now = 1
    /\ hotels = {Hotel1}
    /\ reviews \in {{}, {Review1, Review2}}
    /\ translations = {Translation1}
    /\ nextUuid = 0
    /\ \E j1 \in AllJobs : \E j2 \in AllJobs \ {j1} : msg = <<j1, j2>>
    /\ lockExp = [k \in {LockKey(msg[d].id) : d \in 1..2} |-> 0]
    /\ cacheExp = [k \in {CacheKey(msg[d]) : d \in 1..2} |-> 0]
    /\ ready = 1..2
    /\ answers = [d \in 1..2 |-> <<>>]
    /\ hist = NoHist
    /\ firstWinner = 0
    /\ wk = [w \in Workers |-> IdleWorker]
    /\ dp = IdleDispatch
    /\ queue = <<>>
    /\ cl = IdleClient
    /\ cb = ClosedBreaker
    /\ cn = NoConsumer
    /\ rd = [r \in 1..NumReaders |-> IdleReader]

NextTicks == (\E w \in Workers : Step(w)) \/ Tick

SpecTicks == InitTicks /\ [][NextTicks]_vars

\* The handler's cupidAPI.Fetch... call begins: makeRequest enters executeWithRetry
FetchStarts(w) == wk[w].pc = "fetch" /\ StartCall

\* executeWithRetry has returned nil: the handler goes on with the entity
FetchReturns(w) == cl.pc = "done" /\ cl.ret = Nil /\ Fetch(w)

\* executeWithRetry has returned an error: the handler returns it
FetchReturnsError(w) ==
    /\ cl.pc = "done" /\ cl.ret # Nil
    /\ FetchFails(w)
    /\ wk'[w].status = (IF is404Error(cl.lastErr) THEN 404 ELSE 503)

\* One worker handling the deliveries of a job one after the other, each upstream
\* call made through the retry loop and the circuit breaker
NextJob ==
    \/ (cl.pc = "idle" /\ Deliver(1))
    \/ Acquire(1) \/ CacheGet(1) \/ Resolve(1)
    \/ FetchStarts(1) \/ Operation \/ OperationRejected \/ BackoffElapsed
    \/ FetchReturns(1) \/ FetchReturnsError(1)
    \/ Lookup(1) \/ Write(1) \/ CacheSet(1) \/ Release(1)
    \/ Answer(1)
    \/ (wk[1].pc = "idle" /\ ReturnCall)
    \/ BreakerTimeout \/ BreakerInterval
    \/ Tick

SpecJob == InitDup /\ [][NextJob]_vars

\* The same job processed twice in sequence by one worker
NextSeq == Step(1) \/ Tick

SpecSeq == InitDup /\ [][NextSeq]_vars

\* Update jobs delivered for a row that may have left the canonical store since
\* the dispatcher enqueued them
InitStale ==
    /\ now = 1
    /\ \E kind \in {MessageTypeUpdateHotel, MessageTypeUpdateReview, MessageTypeUpdateTranslation} :
       \E gone \in BOOLEAN :
          LET row == CASE kind = MessageTypeUpdateHotel -> Hotel1
                       [] kind = MessageTypeUpdateReview -> Review1
                       [] OTHER -> Translation1
          IN  /\ hotels = {Hotel1} \ (IF gone THEN {row} ELSE {})
              /\ reviews = {Review1} \ (IF gone THEN {row} ELSE {})
              /\ translations = {Translation1} \ (IF gone THEN {row} ELSE {})
              /\ msg = [d \in 1..NumDuplicates |->
                          JobOf(kind, [ID |-> row.id, HotelID |-> row.hotel_id, Lang |-> ""])]
    /\ nextUuid = 0
    /\ lockExp = [k \in {LockKey(msg[d].id) : d \in 1..NumDuplicates} |-> 0]
    /\ cacheExp = [k \in {CacheKey(msg[d]) : d \in 1..NumDuplicates} |-> 0]
    /\ ready = 1..NumDuplicates
    /\ answers = [d \in 1..NumDuplicates |-> <<>>]
    /\ hist = NoHist
    /\ firstWinner = 0
    /\ wk = [w \in Workers |-> IdleWorker]
    /\ dp = IdleDispatch
    /\ queue = <<>>
    /\ cl = IdleClient
    /\ cb = ClosedBreaker
    /\ cn = NoConsumer
    /\ rd = [r \in 1..NumReaders |-> IdleReader]

SpecStale == InitStale /\ [][NextSeq]_vars

\* A delivery body that is not JSON
InvalidJSON == [raw |-> "{"]

\* json.Unmarshal(msg.Body, &message) returns nil
Unmarshals(body) == "raw" \notin DOMAIN body

\* The handlers that read message.Data: fetch_review and both translation kinds
ReadsData(m) ==
    m.type \in {MessageTypeFetchReview, MessageTypeUpdateTranslation, MessageTypeFetchTranslation}

\* message.Data == nil: the body has no data object
DataIsNil(m) == "data" \notin DOMAIN m

\* Every message.Data[key].(string) the handler evaluates finds a string under key
AssertionsHold(m) ==
    /\ "hotel_id" \in DOMAIN m.data
    /\ m.type = MessageTypeFetchTranslation => "lang" \in DOMAIN m.data

\* The bodies a job can arrive as: itself, not JSON, of a type no handler knows,
\* without data, and with a data object that lacks hotel_id or lang
BodiesOf(job) ==
    {job, InvalidJSON, [job EXCEPT !.type = "unknown"], [id |-> job.id, type |-> job.type],
     [id |-> job.id, type |-> job.type, data |-> [lang |-> job.data.lang]],
     [id |-> job.id, type |-> job.type, data |-> [hotel_id |-> job.data.hotel_id]]}

\* processMessage: json.Unmarshal fails, "failed to unmarshal message"
UnmarshalFails(w) ==
    /\ wk[w].pc = "acquire"
    /\ ~Unmarshals(msg[wk[w].cur])
    /\ wk' = With(w, [wk[w] EXCEPT !.pc = "answer", !.res = "err"])
    /\ UNCHANGED <<nonWorkerVars, now, storeVars, redisVars, queueVars, hist, firstWinner>>

\* processMessage goes on with the decoded message
AcquireDecoded(w) == wk[w].pc = "acquire" /\ Unmarshals(msg[wk[w].cur]) /\ Acquire(w)

\* A processMessage that returns on an unknown type before it defers the Release
UnknownTypeBeforeDefer(w) ==
    /\ wk[w].pc = "cacheGet"
    /\ msg[wk[w].cur].type \notin Kinds
    /\ wk' = With(w, [wk[w] EXCEPT !.pc = "answer", !.res = "ok"])
    /\ UNCHANGED <<nonWorkerVars, now, storeVars, redisVars, queueVars, hist, firstWinner>>

\* processMessage: the switch's default, "Unknown fetch_type, skipping", return nil
UnknownType(w) ==
    /\ wk[w].pc = "cacheGet"
    /\ msg[wk[w].cur].type \notin Kinds
    /\ wk' = With(w, [wk[w] EXCEPT !.pc = "release", !.res = "ok"])
    /\ UNCHANGED <<nonWorkerVars, now, storeVars, redisVars, queueVars, hist, firstWinner>>

\* processMessage: the switch calls the handler of the type, which reads the cache
HandlerCacheGet(w) ==
    wk[w].pc = "cacheGet" /\ msg[wk[w].cur].type \in Kinds /\ CacheGet(w)

\* The handler returns "message data is nil"
DataNil(w) ==
    LET m == msg[wk[w].cur]
    IN  /\ wk[w].pc = "resolve"
        /\ ReadsData(m) /\ DataIsNil(m)
        /\ wk' = With(w, [wk[w] EXCEPT !.pc = "release", !.res = "err"])
        /\ UNCHANGED <<nonWorkerVars, now, storeVars, redisVars, queueVars, hist, firstWinner>>

\* message.Data[key].(string) on a missing or non-string value panics: the
\* deferred Release runs while the panic unwinds, nothing recovers it, the worker
\* process ends and the broker takes the unanswered delivery back
AssertionPanics(w) ==
    LET d == wk[w].cur
        m == msg[d]
    IN  /\ wk[w].pc = "resolve"
        /\ ReadsData(m) /\ ~DataIsNil(m) /\ ~AssertionsHold(m)
        /\ wk' = With(w, [wk[w] EXCEPT !.pc = "dead", !.released = "ok"])
        /\ lockExp' = RedisDel(lockExp, LockKey(m.id))
        /\ ready' = ready \cup {d}
        /\ UNCHANGED <<nonWorkerVars, now, storeVars, cacheExp, msg, answers, hist, firstWinner>>

\* The handler has the strings it needs and resolves the identity
ResolveDecoded(w) ==
    LET m == msg[wk[w].cur]
    IN  /\ wk[w].pc = "resolve"
        /\ ReadsData(m) => (~DataIsNil(m) /\ AssertionsHold(m))
        /\ Resolve(w)

\* A delivery of any shape followed by the job itself
InitMalformed ==
    /\ now = 1
    /\ hotels = {Hotel1}
    /\ \E full \in BOOLEAN :
          /\ reviews = IF full THEN {Review1} ELSE {}
          /\ translations = IF full THEN {Translation1} ELSE {}
    /\ nextUuid = 0
    /\ \E kind \in Kinds : \E job \in JobsOfKind(kind) : \E body \in BodiesOf(job) :
          /\ msg = <<body, job>>
          /\ lockExp = [k \in {LockKey(job.id)} |-> 0]
          /\ cacheExp = [k \in {CacheKey(job)} |-> 0]
    /\ ready = 1..2
    /\ answers = [d \in 1..2 |-> <<>>]
    /\ hist = NoHist
    /\ firstWinner = 0
    /\ wk = [w \in Workers |-> IdleWorker]
    /\ dp = IdleDispatch
    /\ queue = <<>>
    /\ cl = IdleClient
    /\ cb = ClosedBreaker
    /\ cn = NoConsumer
    /\ rd = [r \in 1..NumReaders |-> IdleReader]

NextMalformed ==
    \/ \E w \in Workers :
          \/ Deliver(w)
          \/ UnmarshalFails(w)
          \/ AcquireDecoded(w)
          \/ UnknownType(w)
          \/ HandlerCacheGet(w)
          \/ DataNil(w)
          \/ AssertionPanics(w)
          \/ ResolveDecoded(w)
          \/ Fetch(w)
          \/ FetchFails(w)
          \/ Lookup(w)
          \/ Write(w)
          \/ CacheSet(w)
          \/ Release(w)
          \/ Answer(w)
    \/ Tick

SpecMalformed == InitMalformed /\ [][NextMalformed]_vars

\* Workers refreshing a hotels row while the Dispatcher runs update_hotel dispatches
InitRefresh == InitDup /\ msg[1].type = MessageTypeUpdateHotel

NextRefresh ==
    \/ \E w \in Workers : Step(w)
    \/ Tick
    \/ TriggerFetch(MessageTypeUpdateHotel)
    \/ QueryPage
    \/ PublishOne

SpecRefresh == InitRefresh /\ [][NextRefresh]_vars

\* The job the spec asks for a due hotels row
UpdateHotelJob(row) ==
    [id |-> row.id, type |-> MessageTypeUpdateHotel,
     data |-> [hotel_id |-> Itoa(row.hotel_id), lang |-> ""]]

\* The Read API serving GET /hotels/{id} while one worker refreshes a hotels row
InitRead ==
    /\ now = 1
    /\ hotels = {Hotel1}
    /\ reviews = {}
    /\ translations = {}
    /\ nextUuid = 0
    /\ msg = <<UpdateHotelJob(Hotel1)>>
    /\ lockExp = [k \in {LockKey(Hotel1.id)} |-> 0]
    /\ cacheExp = [k \in {CacheKey(msg[1])} \cup {ReadCacheKey(h) : h \in 1..MaxHotelID} |-> 0]
    /\ ready = {1}
    /\ answers = <<<<>>>>
    /\ hist = NoHist
    /\ firstWinner = 0
    /\ wk = [w \in Workers |-> IdleWorker]
    /\ dp = IdleDispatch
    /\ queue = <<>>
    /\ cl = IdleClient
    /\ cb = ClosedBreaker
    /\ cn = NoConsumer
    /\ rd = [r \in 1..NumReaders |-> IdleReader]

Request(r) ==
    \/ GetHotelByID(r)
    \/ FindByHotelID(r)
    \/ FindByHotelIDFails(r)
    \/ ProviderGetHotelByID(r)
    \/ ProviderGetHotelByIDFails(r)
    \/ Save(r)
    \/ SaveFails(r)
    \/ CacheFetchedHotel(r)
    \/ indexHotel(r)

NextRead == (\E r \in 1..NumReaders : Request(r)) \/ Step(1) \/ Tick

SpecRead == InitRead /\ [][NextRead]_vars

-----------------------------------------------------------------------------
(* One dispatch over a stable database *)

\* next_update_at of a row: in the past (due) or in the future
UpdateTimes == {0, MaxTime}

HotelRow(h, at) ==
    [id |-> "h" \o Itoa(h), hotel_id |-> h, created_at |-> 1, next_update_at |-> at]
ReviewRow(n, h, at) ==
    [id |-> "r" \o Itoa(n), hotel_id |-> h, review_id |-> n, created_at |-> 1,
     next_update_at |-> at]
TranslationRow(h, l, at) ==
    [id |-> "t" \o Itoa(h) \o l, hotel_id |-> h, lang |-> l, created_at |-> 1,
     next_update_at |-> at]

\* hotels: at most one row per hotel_id in 0..MaxHotelID, each due or not
HotelTables ==
    {{HotelRow(h, at[h]) : h \in H} : H \in SUBSET (0..MaxHotelID), at \in [0..MaxHotelID -> UpdateTimes]}

\* reviews: rows 1..n, each attached to a hotel_id; several may share one
ReviewTables ==
    UNION {{{ReviewRow(n, h[n], 0) : n \in 1..k} : h \in [1..k -> 1..MaxHotelID]}
             : k \in 0..MaxReviewRows}

\* translations: one row per (hotel_id, lang) pair of a subset of the pairs
TranslationTables ==
    {{TranslationRow(p[1], p[2], 0) : p \in P} : P \in SUBSET ((1..MaxHotelID) \X Langs)}

InitDispatch ==
    /\ now = 1
    /\ hotels \in HotelTables
    /\ reviews \in ReviewTables
    /\ translations \in TranslationTables
    /\ nextUuid = 0
    /\ msg = <<>>
    /\ lockExp = <<>>
    /\ cacheExp = <<>>
    /\ ready = {}
    /\ answers = <<>>
    /\ hist = NoHist
    /\ firstWinner = 0
    /\ wk = [w \in Workers |-> IdleWorker]
    /\ \E kind \in Kinds, configured \in 0..MaxBatchSize : dp = StartDispatch(kind, configured)
    /\ queue = <<>>
    /\ cl = IdleClient
    /\ cb = ClosedBreaker
    /\ cn = NoConsumer
    /\ rd = [r \in 1..NumReaders |-> IdleReader]

NextDispatch ==
    \/ QueryPage
    \/ QueryFails
    \/ PublishOne
    \/ PublishFails
    \/ CancelDispatch

SpecDispatch == InitDispatch /\ [][NextDispatch]_vars

\* db.Create by a worker or by the Read API while the dispatch is paging: a new
\* row appears in one of the tables
ConcurrentCreate ==
    /\ dp.pc \in {"query", "publish"}
    /\ nextUuid < MaxInserts
    /\ nextUuid' = nextUuid + 1
    /\ \/ \E h \in 1..(MaxHotelID + 1) :
             /\ ~\E x \in hotels : x.hotel_id = h
             /\ hotels' = hotels \cup {HotelRow(h, 0)}
             /\ UNCHANGED <<reviews, translations>>
       \/ \E h \in 1..(MaxHotelID + 1) :
             /\ reviews' = reviews \cup {ReviewRow(MaxReviewRows + nextUuid + 1, h, 0)}
             /\ UNCHANGED <<hotels, translations>>
       \/ \E h \in 1..(MaxHotelID + 1), l \in Langs :
             /\ ~\E t \in translations : t.hotel_id = h /\ t.lang = l
             /\ translations' = translations \cup {TranslationRow(h, l, 0)}
             /\ UNCHANGED <<hotels, reviews>>
    /\ UNCHANGED <<nonWorkerVars, now, redisVars, queueVars, hist, firstWinner, wk>>

\* A dispatch over tables of which only those its discovery query reads hold rows
InitPaging ==
    /\ InitDispatch
    /\ dp.kind \in {MessageTypeUpdateReview, MessageTypeUpdateTranslation} => hotels = {}
    /\ dp.kind \in {MessageTypeUpdateHotel, MessageTypeUpdateTranslation,
                     MessageTypeFetchTranslation} => reviews = {}
    /\ dp.kind \in {MessageTypeUpdateHotel, MessageTypeUpdateReview,
                     MessageTypeFetchReview} => translations = {}

NextPaging == QueryPage \/ PublishOne \/ ConcurrentCreate

\* The goroutine running processBatch keeps running
PagingFairness == WF_vars(QueryPage) /\ WF_vars(PublishOne)

SpecPaging == InitPaging /\ [][NextPaging]_vars /\ PagingFairness

\* The Dispatcher starts over a small store and runs runOnce
NextStartup ==
    \/ RunOnce
    \/ QueryPage
    \/ QueryFails
    \/ PublishOne
    \/ PublishFails
    \/ RunOnceNext

SpecStartup == InitDup /\ [][NextStartup]_vars

-----------------------------------------------------------------------------
(* A sequence of client calls against an upstream that answers at will *)

InitClient ==
    /\ now = 1
    /\ hotels = {}
    /\ reviews = {}
    /\ translations = {}
    /\ nextUuid = 0
    /\ msg = <<>>
    /\ lockExp = <<>>
    /\ cacheExp = <<>>
    /\ ready = {}
    /\ answers = <<>>
    /\ hist = NoHist
    /\ firstWinner = 0
    /\ wk = [w \in Workers |-> IdleWorker]
    /\ dp = IdleDispatch
    /\ queue = <<>>
    /\ cl = IdleClient
    /\ cb = ClosedBreaker
    /\ cn = NoConsumer
    /\ rd = [r \in 1..NumReaders |-> IdleReader]

NextClient ==
    \/ StartCall
    \/ Operation
    \/ OperationRejected
    \/ OperationCancelled
    \/ BackoffElapsed
    \/ BackoffCancelled
    \/ CancelCall
    \/ ReturnCall
    \/ BreakerTimeout
    \/ BreakerInterval

SpecClient == InitClient /\ [][NextClient]_vars

-----------------------------------------------------------------------------
(* A worker process and its broker *)

InitConsumer ==
    /\ now = 1
    /\ hotels = {}
    /\ reviews = {}
    /\ translations = {}
    /\ nextUuid = 0
    /\ msg = <<>>
    /\ lockExp = <<>>
    /\ cacheExp = <<>>
    /\ ready = {}
    /\ answers = <<>>
    /\ hist = NoHist
    /\ firstWinner = 0
    /\ wk = [w \in Workers |-> IdleWorker]
    /\ dp = IdleDispatch
    /\ queue = <<>>
    /\ cl = IdleClient
    /\ cb = ClosedBreaker
    /\ \E broker \in {"up", "down"} : cn = NewRabbitMQConsumer(broker)
    /\ rd = [r \in 1..NumReaders |-> IdleReader]

NextConsumer ==
    \/ DoConnect
    \/ DoConnectFails
    \/ ConnectBackoff
    \/ ReconnectTick
    \/ Consume
    \/ Receive
    \/ DeliveriesClosed
    \/ BrokerDown
    \/ BrokerUp

\* The goroutines keep running, timers fire, and the broker comes back
ConsumerFairness ==
    /\ WF_vars(DoConnect)
    /\ WF_vars(DoConnectFails)
    /\ WF_vars(ConnectBackoff)
    /\ WF_vars(ReconnectTick)
    /\ WF_vars(Consume)
    /\ WF_vars(Receive)
    /\ WF_vars(DeliveriesClosed)
    /\ WF_vars(BrokerUp)

SpecConsumer == InitConsumer /\ [][NextConsumer]_vars /\ ConsumerFairness

\* The worker process with its shutdown calling Close, twice at most
NextClose ==
    \/ NextConsumer
    \/ ReconnectLoopExits
    \/ Close
    \/ CloseLocked
    \/ CloseAgain

SpecClose == InitConsumer /\ [][NextClose]_vars

-----------------------------------------------------------------------------
(* Properties of the worker pool *)

\* Worker w is past step 2 of the pipeline: lock acquired, handler not yet returned
InHandler(w) ==
    wk[w].pc \in {"cacheGet", "resolve", "fetch", "lookup", "write", "cacheSet", "release"}

\* Worker w is still inside the lock TTL window that its own Acquire began
InOwnWindow(w) ==
    now < wk[w].acqAt + getTTLConfigForEntity(msg[wk[w].cur].type).LockSeconds

\* C1: for one lock key, no two workers are past step 2 of the pipeline at an
\* instant that lies inside the lock TTL window begun by each one's Acquire.
C1_OnePerTTLWindow ==
    \A v, w \in Workers :
        (/\ v # w
         /\ InHandler(v) /\ InHandler(w)
         /\ LockKey(msg[wk[v].cur].id) = LockKey(msg[wk[w].cur].id))
        => ~(InOwnWindow(v) /\ InOwnWindow(w))

\* The table a job kind persists to
TableOf(kind) ==
    CASE EntityOf(kind) = "Hotels" -> hotels
      [] EntityOf(kind) = "Reviews" -> reviews
      [] OTHER -> translations

\* C5: when a handler has returned success, every row it persisted for a job of
\* kind k has next_update_at >= (the run's time.Now()) + next_update_seconds(k),
\* whether the row was updated or inserted.
C5_NextUpdateAtAdvances ==
    \A w \in Workers :
        (wk[w].pc = "release" /\ wk[w].res = "ok") =>
            \A i \in 1..Len(wk[w].done) :
                \A row \in TableOf(msg[wk[w].cur].type) :
                    row.id = wk[w].done[i].id =>
                        row.next_update_at >= wk[w].done[i].stamp
                            + TTLConfig[EntityOf(msg[wk[w].cur].type)].NextUpdateSeconds

AllAnswered ==
    /\ \A d \in DOMAIN answers : Len(answers[d]) = 1
    /\ \A w \in Workers : wk[w].pc = "idle"

OthersAcked ==
    \A d \in DOMAIN answers :
        d # firstWinner => \A i \in 1..Len(answers[d]) : answers[d][i].op = "ack"

Handled(d) == d \notin ready /\ \A w \in Workers : wk[w].cur # d

ReviewsWith(rid) == {r \in reviews : r.review_id = rid}

\* A review run has fetched, upserted every review of the response and returned nil
ReviewRunSucceeded(w) ==
    /\ wk[w].pc = "release" /\ wk[w].res = "ok" /\ wk[w].called
    /\ EntityOf(msg[wk[w].cur].type) = "Reviews"

\* Every reviews row keeps its primary key in a step
ReviewIdsKept ==
    \A r \in reviews : \A q \in reviews' : q.review_id = r.review_id => q.id = r.id

\* C11: reviews never holds two rows with one review_id; when a review run
\* (update_review or fetch_review) has succeeded, each review_id of its response has
\* exactly one row; and a row's primary key never changes once it is created, so
\* after two successful runs the id is the one assigned at creation.
C11_ReviewIdentityStable ==
    /\ [](\A r, q \in reviews : r.review_id = q.review_id => r.id = q.id)
    /\ [](\A w \in Workers : ReviewRunSucceeded(w) =>
              \A i \in 1..Len(FetchHotelReviews(wk[w].reviewCount)) :
                  Cardinality(ReviewsWith(FetchHotelReviews(wk[w].reviewCount)[i])) = 1)
    /\ [][ReviewIdsKept]_vars

\* The second of two successful runs of one review job has updated the row the
\* first run's response created or updated
C11_Witness ==
    \E w \in Workers :
        /\ ReviewRunSucceeded(w)
        /\ hist.calls = 2
        /\ \E d \in DOMAIN answers : d # wk[w].cur /\ answers[d] = <<AnswerOf("ok")>>
        /\ \E r \in reviews : r.id \in {wk[w].done[i].id : i \in 1..Len(wk[w].done)}

\* Both deliveries have been processed, each with success
BothRunsSucceeded ==
    /\ AllAnswered
    /\ \A d \in DOMAIN answers : answers[d][1].op = "ack"

\* C12: when the same job has been processed twice in sequence with success, the
\* upstream being the same for both runs, the store without updated_at and
\* next_update_at equals the store as the first run left it, and the job's cache
\* key holds the value it held after the first run.
C12_SecondRunChangesNothing ==
    BothRunsSucceeded =>
        /\ Stripped(hotels) = hist.snap.hotels
        /\ Stripped(reviews) = hist.snap.reviews
        /\ Stripped(translations) = hist.snap.translations
        /\ hist.blob = hist.snap.blob

\* C13: an update_hotel dispatch that starts after a worker has completed a
\* successful update_hotel run for a hotels row, and that queries the table less
\* than hotels.next_update_seconds after the time.Now() of that run, discovers no
\* job for that row.
C13_NoJobWithinNextUpdateSeconds ==
    [][(/\ dp.pc = "query" /\ dp'.pc = "publish"
        /\ dp.kind = MessageTypeUpdateHotel
        /\ dp.since > 0
        /\ now < dp.since + TTLConfig.Hotels.NextUpdateSeconds)
       => \A i \in 1..Len(dp'.jobs) : dp'.jobs[i].id # msg[1].id]_vars

\* C14: in every reachable state of the worker pool processing translation jobs
\* (duplicate deliveries, a lock that expires under its holder), the translations
\* table holds at most one row per (hotel_id, lang).
C14_OneTranslationPerHotelAndLang ==
    \A r, q \in translations : (r.hotel_id = q.hotel_id /\ r.lang = q.lang) => r = q

\* Worker w makes a step
Moves(w) == wk'[w] # wk[w]

Nack == [op |-> "nack", requeue |-> FALSE, ret |-> "err"]
Ack == [op |-> "ack", requeue |-> FALSE, ret |-> "ok"]

\* The step in which consumeMessages answers the delivery of worker w with answer a
AnswersWith(w, a) ==
    /\ answers' = [answers EXCEPT ![wk[w].cur] = Append(@, a)]
    /\ wk[w].cur \notin ready'

\* C18: a run whose upstream call was answered 404 returns an error, has written no
\* row and no cache key, changes neither the store nor the cache afterwards, calls
\* Release (which, unless Redis fails, deletes the job's lock key) and is answered
\* with Nack(requeue = false).
C18_NotFoundFailsTheJobWithoutEffects ==
    /\ [](\A w \in Workers : wk[w].status = 404 =>
             /\ wk[w].pc \in {"release", "answer"}
             /\ wk[w].res = "err"
             /\ wk[w].done = <<>>
             /\ ~wk[w].cached
             /\ wk[w].pc = "answer" => wk[w].released # "no")
    /\ [][\A w \in Workers : (wk[w].status = 404 /\ Moves(w)) =>
             /\ UNCHANGED <<storeVars, cacheExp>>
             /\ wk'[w].released = "ok" => lockExp'[LockKey(msg[wk[w].cur].id)] = 0
             /\ wk[w].pc = "answer" => AnswersWith(w, Nack)]_vars

\* A 404 run that has released the lock and is about to be answered
C18_Witness ==
    \E w \in Workers : /\ wk[w].status = 404 /\ wk[w].pc = "answer"
                        /\ wk[w].released = "ok"
                        /\ lockExp[LockKey(msg[wk[w].cur].id)] = 0
                        /\ answers[wk[w].cur] = <<>>

\* C19: a run whose Acquire returned false or an error goes straight to the answer
\* with no upstream call, no store write, no cache write and no Release; the
\* answer is an Ack after false and a Nack(requeue = false) after an error, and
\* the answering step leaves store, locks and cache alone.
C19_NotAcquiredMeansNoSideEffects ==
    /\ [](\A w \in Workers : wk[w].acquired \in {"false", "err"} =>
             /\ wk[w].pc = "answer"
             /\ wk[w].res = (IF wk[w].acquired = "false" THEN "ok" ELSE "err")
             /\ ~wk[w].called
             /\ wk[w].done = <<>>
             /\ ~wk[w].cached
             /\ wk[w].released = "no")
    /\ [][\A w \in Workers : (wk[w].acquired \in {"false", "err"} /\ Moves(w)) =>
             /\ UNCHANGED <<storeVars, redisVars>>
             /\ hist'.calls = hist.calls
             /\ AnswersWith(w, IF wk[w].acquired = "false" THEN Ack ELSE Nack)]_vars

\* A delivery about to be acked unprocessed while the other worker, holding the
\* lock, is in its handler
C19_Witness ==
    \E w, v \in Workers :
        /\ wk[w].acquired = "false" /\ wk[w].pc = "answer"
        /\ wk[v].acquired = "true" /\ Live(lockExp, LockKey(msg[wk[w].cur].id))

\* C20: every run takes its lock TTL, its cache TTL and its next-update interval
\* from the triple of the entity class of its job kind (update_hotel: hotels;
\* update_review, fetch_review: reviews; update_translation, fetch_translation:
\* translations): the lock acquired expires lock_seconds from now, the cache key
\* written expires cache_seconds from now, and the entity is stamped with
\* next_update_at = now + next_update_seconds.
C20_TTLsOfTheEntityClass ==
    [][\A w \in Workers :
          LET m == msg[wk[w].cur]
              triple == TTLConfig[EntityOf(m.type)]
          IN  /\ (wk[w].pc = "acquire" /\ wk'[w].acquired = "true") =>
                     lockExp'[LockKey(m.id)] = now + triple.LockSeconds
              /\ (wk[w].pc = "lookup" /\ wk'[w].pc = "write") =>
                     wk'[w].ent.next_update_at = now + triple.NextUpdateSeconds
              /\ (wk[w].pc = "cacheSet" /\ wk'[w].cached) =>
                     cacheExp'[CacheKey(m)] = now + triple.CacheSeconds]_vars

\* The call of the run in hand began with the breaker closed, its first two
\* requests were answered 503, and a third answer, if any, was 200
DownTwiceThenUp ==
    /\ cl.start.state = "closed"
    /\ cl.script \in {2, 3}

\* The retry loop has returned on the third attempt with nil, and the run that made
\* the call has upserted and is answered with an Ack
ThirdAttemptSucceeds ==
    /\ cl.pc = "done" => (cl.ret = Nil /\ cl.ops = 3)
    /\ (cl.pc = "done" /\ wk[1].pc = "answer") =>
           (wk[1].status = 200 /\ wk[1].res = "ok" /\ wk[1].done # <<>>)

ResolvesToNothing(m) ==
    CASE m.type = MessageTypeUpdateHotel -> GetHotelIdByPk(m.id) = 0
      [] m.type = MessageTypeUpdateReview -> GetHotelIdFromReviewByPk(m.id) = 0
      [] m.type = MessageTypeUpdateTranslation -> GetLangById(m.id) = ""
      [] OTHER -> FALSE

\* C26: a run that holds the lock and whose job's external identity resolves to
\* 0 or empty has, when it is about to be answered, made no upstream call and
\* returned success, and is answered with an Ack.
C26_UnresolvedIdentityIsSkippedAsSuccess ==
    /\ [](\A w \in Workers :
             (/\ wk[w].pc = "answer" /\ wk[w].acquired = "true"
              /\ ResolvesToNothing(msg[wk[w].cur]))
               => (~wk[w].called /\ wk[w].res = "ok"))
    /\ [][\A w \in Workers :
             (/\ wk[w].pc = "answer" /\ wk[w].acquired = "true"
              /\ ResolvesToNothing(msg[wk[w].cur]) /\ Moves(w))
               => AnswersWith(w, Ack)]_vars

\* C27: a run whose cache Get, made after it acquired the lock, found the job's
\* cache key goes straight to the deferred Release with success: it makes no
\* upstream call, its steps change neither the store nor the cache, it calls
\* Release (which, unless Redis fails, deletes the job's lock key) and it is
\* answered with an Ack.
C27_CacheHitSkipsTheJob ==
    /\ [](\A w \in Workers : wk[w].found =>
             /\ wk[w].acquired = "true"
             /\ wk[w].pc \in {"release", "answer"}
             /\ wk[w].res = "ok"
             /\ ~wk[w].called
             /\ wk[w].done = <<>>
             /\ ~wk[w].cached
             /\ wk[w].pc = "answer" => wk[w].released # "no")
    /\ [][\A w \in Workers :
             /\ (wk[w].pc = "cacheGet" /\ wk'[w].found) =>
                   /\ Live(cacheExp, CacheKey(msg[wk[w].cur]))
                   /\ UNCHANGED <<storeVars, redisVars>>
                   /\ hist'.calls = hist.calls
             /\ (wk[w].found /\ Moves(w)) =>
                   /\ UNCHANGED <<storeVars, cacheExp>>
                   /\ hist'.calls = hist.calls
                   /\ wk'[w].released = "ok" => lockExp'[LockKey(msg[wk[w].cur].id)] = 0
                   /\ wk[w].pc = "answer" => AnswersWith(w, Ack)]_vars

\* A duplicate delivery that found the cache key the first run wrote, has
\* released its lock and is about to be acked
C27_Witness ==
    \E w \in Workers : /\ wk[w].found /\ wk[w].pc = "answer"
                        /\ wk[w].released = "ok"
                        /\ lockExp[LockKey(msg[wk[w].cur].id)] = 0
                        /\ answers[wk[w].cur] = <<>>
                        /\ wk[w].cur # firstWinner /\ firstWinner # 0

\* The delivery body is not valid JSON, or its handler reads data and the data is
\* missing or lacks a string hotel_id (or a string lang for fetch_translation)
Malformed(body) ==
    \/ ~Unmarshals(body)
    \/ ReadsData(body) /\ (DataIsNil(body) \/ ~AssertionsHold(body))

\* C28: no worker's consume loop ever terminates, and a run of a malformed
\* delivery is answered with Nack(requeue = false), after which the worker is
\* idle again and takes the next delivery.
C28_MalformedIsNackedAndTheLoopGoesOn ==
    /\ [](\A w \in Workers : wk[w].pc # "dead")
    /\ [][\A w \in Workers :
             (wk[w].pc = "answer" /\ Malformed(msg[wk[w].cur]) /\ Moves(w))
               => (AnswersWith(w, Nack) /\ wk'[w].pc = "idle")]_vars

\* Every row the run of worker w has written is in its table
KeepsUpserted(w) ==
    \A i \in 1..Len(wk[w].done) :
        \E r \in TableOf(msg[wk[w].cur].type) : r.id = wk[w].done[i].id

\* C30: a cache Get that fails leaves the run where a miss leaves it (at the
\* identity resolution, store and Redis untouched); a run whose cache Set failed
\* had fetched and upserted, returns success without a cache write, changes
\* the store no more, keeps its upserted rows in the store and is answered with
\* an Ack.
C30_CacheFailuresAreNotJobFailures ==
    /\ [](\A w \in Workers : wk[w].setErr =>
             /\ wk[w].pc \in {"release", "answer"}
             /\ wk[w].res = "ok"
             /\ wk[w].status = 200
             /\ wk[w].done # <<>>
             /\ ~wk[w].cached
             /\ KeepsUpserted(w))
    /\ [][\A w \in Workers :
             /\ (wk[w].pc = "cacheGet" /\ wk'[w].getErr) =>
                   /\ [wk'[w] EXCEPT !.getErr = FALSE] = [wk[w] EXCEPT !.pc = "resolve"]
                   /\ UNCHANGED <<storeVars, redisVars>>
             /\ (wk[w].pc = "cacheSet" /\ wk'[w].setErr) =>
                   UNCHANGED <<storeVars, redisVars>>
             /\ (wk[w].setErr /\ Moves(w)) =>
                   /\ UNCHANGED <<storeVars, cacheExp>>
                   /\ wk[w].pc = "answer" => AnswersWith(w, Ack)]_vars

\* A run whose cache Get and cache Set both failed has fetched, upserted and
\* released, and is about to be acked with its row in the store and no cache key
C30_Witness ==
    \E w \in Workers : /\ wk[w].getErr /\ wk[w].setErr
                        /\ wk[w].pc = "answer" /\ wk[w].res = "ok"
                        /\ wk[w].done # <<>> /\ KeepsUpserted(w)
                        /\ ~Live(cacheExp, CacheKey(msg[wk[w].cur]))
                        /\ answers[wk[w].cur] = <<>>

\* Write a happened before write b in the sequence of writes
Before(writes, a, b) ==
    \E i, j \in 1..Len(writes) : i < j /\ writes[i] = a /\ writes[j] = b

\* C32: a Read API request whose index update has started has made its cache
\* write before it, and its store save, when it made one, before the cache write.
C32_SaveThenCacheThenIndex ==
    \A r \in 1..NumReaders :
        rd[r].index = "started" =>
            /\ Before(rd[r].writes, "cache", "index")
            /\ (\E i \in 1..Len(rd[r].writes) : rd[r].writes[i] = "save") =>
                   Before(rd[r].writes, "save", "cache")

\* Worker v is inside a run whose Acquire succeeded and whose lock is still set
HoldsLiveLock(v) ==
    /\ wk[v].pc # "idle"
    /\ wk[v].acquired = "true"
    /\ wk[v].released = "no"
    /\ Live(lockExp, LockKey(msg[wk[v].cur].id))

\* C36: a Release never deletes a lock key that another worker acquired after
\* the releasing worker's own lock expired and that this other worker still holds.
C36_ReleaseSparesLaterHolders ==
    [][\A w \in Workers :
        (wk[w].released = "no" /\ wk'[w].released = "ok") =>
            ~ \E v \in Workers \ {w} :
                /\ HoldsLiveLock(v)
                /\ LockKey(msg[wk[v].cur].id) = LockKey(msg[wk[w].cur].id)
                /\ wk[v].acqAt > wk[w].acqAt
                /\ lockExp'[LockKey(msg[wk[v].cur].id)] = 0]_vars

\* C37: a delivery is skipped as already being processed only while another
\* worker holds the lock for a job of the same kind and the same id.
C37_SkippedOnlyForSameKindAndId ==
    [][\A w \in Workers :
        (wk[w].acquired # "false" /\ wk'[w].acquired = "false") =>
            \E v \in Workers \ {w} :
                /\ HoldsLiveLock(v)
                /\ msg[wk[v].cur].id = msg[wk[w].cur].id
                /\ msg[wk[v].cur].type = msg[wk[w].cur].type]_vars

\* C39: when the two deliveries are the update_review jobs of the two due reviews
\* rows of one hotel, at most one upstream reviews request is made.
C39_OneReviewsRequestPerHotel ==
    (/\ \A d \in 1..2 : msg[d].type = MessageTypeUpdateReview
     /\ \E r1 \in reviews : \E r2 \in reviews :
           /\ r1.id = msg[1].id /\ r2.id = msg[2].id
           /\ r1.hotel_id = r2.hotel_id)
        => hist.calls <= 1

\* C31: while a run that acquired the lock has not run Release, or its Release has
\* failed, the lock key is no longer set once lock_seconds of the entity class of
\* the job's kind have passed since the Acquire.
C31_LockFreeAfterLockSecondsOfTheKind ==
    \A w \in Workers :
        (/\ wk[w].acquired = "true"
         /\ wk[w].released \in {"no", "failed"}
         /\ now >= wk[w].acqAt + TTLConfig[EntityOf(msg[wk[w].cur].type)].LockSeconds)
            => ~ Live(lockExp, LockKey(msg[wk[w].cur].id))

\* C35: a delivery that is in flight when the worker is told to stop is acked
\* after a normal run or left unacknowledged; no run that the shutdown made fail
\* nacks its delivery without requeue.
C35_ShutdownNacksNothing ==
    \A d \in DOMAIN answers : \A i \in 1..Len(answers[d]) : answers[d][i].op # "nack"

\* C34: a run that acquired the lock has called Release by the time
\* processMessage has returned (after handler success, cache hit, handler error
\* and unknown type alike), the Release is a DEL of the run's own lock key, and
\* the delivery is answered only after it.
C34_ReleaseOnEveryExitPath ==
    /\ [](\A w \in Workers :
             (wk[w].acquired = "true" /\ wk[w].pc \in {"answer", "dead"}) =>
                 wk[w].released # "no")
    /\ [][\A w \in Workers :
             /\ (wk[w].released = "no" /\ wk'[w].released = "ok") =>
                   /\ wk[w].acquired = "true"
                   /\ lockExp' = RedisDel(lockExp, LockKey(msg[wk[w].cur].id))
             /\ (wk[w].pc # "idle" /\ wk[w].acquired = "true"
                 /\ answers'[wk[w].cur] # answers[wk[w].cur]) => wk[w].released # "no"]_vars

\* A delivery of unknown type whose run has released the lock it acquired and is
\* about to be acked
C34_Witness ==
    \E w \in Workers :
        /\ wk[w].pc = "answer" /\ wk[w].acquired = "true" /\ wk[w].released = "ok"
        /\ msg[wk[w].cur].type \notin Kinds
        /\ wk[w].res = "ok"
        /\ answers[wk[w].cur] = <<>>

\* C15: in every reachable state of Read API requests falling back to the
\* upstream (insert on miss) interleaved with worker update_hotel upserts, the
\* hotels table holds at most one row per hotel_id.
C15_OneHotelPerHotelID ==
    \A r, q \in hotels : r.hotel_id = q.hotel_id => r = q

-----------------------------------------------------------------------------
(* Properties of a dispatch *)

\* C33: every page that is not empty moves the cursor to a strictly greater
\* hotel_id, and a dispatch over finite tables, with finitely many rows created
\* while it pages, ends.
C33_CursorAdvancesAndDispatchEnds ==
    /\ [][(dp.pc = "query" /\ dp'.pc = "publish") => dp'.lastHotelID > dp.lastHotelID]_vars
    /\ <>(dp.pc = "done")

\* A dispatch that has ended after all the rows were created under it and after
\* at least two pages that were not empty
C33_Witness ==
    /\ dp.pc = "done" /\ dp.result = "ok"
    /\ nextUuid = MaxInserts
    /\ dp.queries >= 3
    /\ dp.lastHotelID = MaxHotelID + 1

\* How many times message m has been put on the queue
Published(m) == Cardinality({i \in 1..Len(queue) : queue[i] = m})

DispatchSucceeded == dp.pc = "done" /\ dp.result = "ok"

\* C2: a processBatch run of any kind and any page size over a stable database, in
\* which no publish failed, has published the job of every eligible row exactly
\* once and nothing else.
C2_EveryEligibleRowOnce ==
    (DispatchSucceeded /\ dp.faults = 0) =>
        /\ \A job \in JobsOfKind(dp.kind) : Published(job) = 1
        /\ \A i \in 1..Len(queue) : queue[i] \in JobsOfKind(dp.kind)

\* C3: an update_hotel dispatch that returns success has put exactly one message
\* {id = primary key, type = update_hotel, data.hotel_id} on the queue for every
\* hotels row with next_update_at < now and hotel_id > 0, whatever publish
\* failures the retry loop survived.
C3_OneUpdateHotelJobPerDueRow ==
    (DispatchSucceeded /\ dp.kind = MessageTypeUpdateHotel) =>
        \A row \in hotels :
            (row.next_update_at < now /\ row.hotel_id > 0) => Published(UpdateHotelJob(row)) = 1

\* The job the spec asks for a missing (hotel_id, lang) pair
FetchTranslationJob(h, l) ==
    [id |-> Itoa(h) \o "_" \o l, type |-> MessageTypeFetchTranslation,
     data |-> [hotel_id |-> Itoa(h), lang |-> l]]

HasTranslation(h, l) == \E t \in translations : t.hotel_id = h /\ t.lang = l

\* C4: a fetch_translation dispatch of any page size in which no publish failed
\* has enqueued exactly one job "<hotel_id>_<lang>" for every hotel with
\* hotel_id > 0 and every lang in {es, fr} without a translations row, and no job
\* for a pair that has a row.
C4_OneJobPerMissingTranslation ==
    (DispatchSucceeded /\ dp.kind = MessageTypeFetchTranslation /\ dp.faults = 0) =>
        \A row \in hotels : \A l \in Langs :
            Published(FetchTranslationJob(row.hotel_id, l)) =
                (IF row.hotel_id > 0 /\ ~HasTranslation(row.hotel_id, l) THEN 1 ELSE 0)

\* The job the spec asks for a hotel without reviews
FetchReviewJob(row) ==
    [id |-> row.id, type |-> MessageTypeFetchReview,
     data |-> [hotel_id |-> Itoa(row.hotel_id), lang |-> ""]]

HasReview(h) == \E r \in reviews : r.hotel_id = h

C22_StopsAtTheFirstShortPage ==
    (DispatchSucceeded /\ dp.faults = 0) =>
        dp.queries = (Cardinality(JobsOfKind(dp.kind)) \div dp.batchSize) + 1

\* The publish schedule of the spec, in seconds: 1s, 5s, 30s, 2m, 5m, then 5m
Schedule == <<1, 5, 30, 120, 300>>

\* C23: PublishWithRetry makes at most max_retry_attempts attempts for a page and
\* has waited Schedule[k] (5m from the fifth on) after the k-th failed one; the
\* first attempt that succeeds ends it with success and the loop goes on to the
\* next query; when the last attempt has failed the dispatch ends with an error,
\* and a dispatch that has ended neither queries nor publishes again.
C23_BoundedAttemptsOnTheSchedule ==
    /\ [](/\ \A a \in 1..(Len(Schedule) + 2) : backoffDelay(a) = Schedule[Min(a, Len(Schedule))]
          /\ dp.attempt <= MaxRetryAttempts
          /\ \A k \in 1..Len(dp.waits) : dp.waits[k] = Schedule[Min(k, Len(Schedule))]
          /\ (dp.pc = "publish" => Len(dp.waits) = dp.attempt - 1))
    /\ [][/\ (dp.pc = "publish" /\ dp'.pc = "query") =>
               (dp.idx = Len(dp.jobs) /\ queue' = Append(queue, dp.jobs[dp.idx])
                /\ dp'.jobsTotal = dp.jobsTotal + Len(dp.jobs))
          /\ (dp.pc = "publish" /\ dp'.pc = "done") =>
               (/\ dp'.result = "err"
                /\ queue' = queue
                /\ (~dp.cancelled => (dp.attempt = MaxRetryAttempts
                                        /\ Len(dp'.waits) = MaxRetryAttempts)))
          /\ (dp.pc = "done" => (queue' = queue /\ dp'.queries = dp.queries
                                   /\ dp'.pc = "done"))]_vars

\* Every attempt for a page has failed, with the waits between them, and the
\* dispatch has ended with the error, an earlier page staying published
C23_Witness ==
    /\ dp.pc = "done" /\ dp.result = "err" /\ ~dp.cancelled
    /\ Len(dp.waits) = MaxRetryAttempts
    /\ dp.jobsTotal > 0

C25_RunOnceEnumeratesEveryKind ==
    (dp.pc = "done" /\ dp.result = "ok" /\ dp.plan = <<>> /\ dp.enumerated # {}) =>
        dp.enumerated = Kinds

-----------------------------------------------------------------------------
(* Properties of the upstream client *)

\* C9: when the upstream has just answered 404, the breaker's consecutive-failures
\* counter has not advanced, the breaker has not opened, and the client call has
\* returned the 404 error to its caller.
C9_NotFoundIsNoBreakerFailure ==
    cl.last.answer = 404 =>
        /\ cl.last.after.ConsecutiveFailures <= cl.last.before.ConsecutiveFailures
        /\ cl.last.after.state # "open"
        /\ cl.last.err = HTTPError(404)
        /\ cl.pc \in {"done", "idle"}
        /\ cl.ret = OperationFailed(HTTPError(404))

\* A 404 answered when one more failure would have tripped the breaker
C9_Witness ==
    /\ cl.last.answer = 404
    /\ cl.last.before.state = "closed"
    /\ cl.last.before.ConsecutiveFailures = TripThreshold - 1
    /\ cl.last.after.state = "closed"
    /\ cl.pc = "done"

\* C29: with N the configured circuit_breaker_max_failures, a closed breaker has
\* counted fewer than N consecutive failures and opens at the request that
\* makes them N; while it is open a request is failed without an upstream
\* answer; and an open breaker leaves the open state only for half-open.
C29_OpensAfterConfiguredFailures ==
    /\ [](cb.state = "closed" => cb.ConsecutiveFailures < CircuitBreakerMaxFailures)
    /\ [][/\ (cb.state = "closed" /\ cb'.state = "open") =>
                cb.ConsecutiveFailures + 1 = CircuitBreakerMaxFailures
          /\ (cb.state = "open" /\ cl'.ops = cl.ops + 1) =>
                (cl'.last.answer = NoAttempt.answer /\ cl'.last.err # Nil /\ cb' = cb)
          /\ (cb.state = "open" /\ cb'.state # "open") => cb'.state = "halfOpen"]_vars

\* C17: when the upstream has just answered 404, the breaker's consecutive-failures
\* counter has the value it had before the request, whatever that value was.
C17_NotFoundLeavesFailureCountAlone ==
    cl.last.answer = 404 =>
        cl.last.after.ConsecutiveFailures = cl.last.before.ConsecutiveFailures

\* C10 as stated: a call in which the upstream answered every request with a
\* status in {429, 500, 502, 503, 504} has made at most max_retries + 1 attempts
\* and has returned an error that wraps the error of the last attempt.
C10_BoundedAttemptsWrapLastError ==
    (cl.pc = "done" /\ cl.onlyRetryable /\ cl.last.answer \in RetryableCode) =>
        /\ cl.ops <= MaxRetries + 1
        /\ cl.ret = OperationFailed(cl.last.err)

\* C10 amended: such a call has made at least one and at most max_retries + 1
\* attempts, and has returned an error that wraps the error of the last attempt,
\* or, when the context was cancelled and a backoff wait saw it, the context's error.
C10_BoundedAttemptsWrapLastOrCtxError ==
    (cl.pc = "done" /\ cl.onlyRetryable) =>
        /\ cl.ops >= 1
        /\ cl.ops <= MaxRetries + 1
        /\ \/ cl.ret = OperationFailed(cl.last.err)
           \/ cl.cancelled /\ cl.ret = ContextCanceled

C10_Witness ==
    /\ cl.pc = "done" /\ cl.onlyRetryable /\ ~cl.cancelled
    /\ cl.ops = MaxRetries + 1
    /\ cl.last.answer = 503
    /\ cl.ret = OperationFailed(HTTPError(503))

-----------------------------------------------------------------------------
(* Properties of the queue consumer *)

\* C7: once the broker stays reachable, the worker eventually holds an open
\* connection and channel and its consume loop receives messages again, for good.
C7_ReconnectsAndResumesConsuming ==
    <>[](cn.conn = "open" /\ cn.channel = "open" /\ cn.consume = "consuming")

\* C40: once Close has returned, the consumer's connection and channel are not
\* open, however Close interleaves with connectWithRetry and doConnect, and
\* every Close call has returned nil.
C40_NothingOpenAfterClose ==
    cn.close = "returned" =>
        /\ cn.conn # "open"
        /\ cn.channel # "open"
        /\ \A i \in 1..Len(cn.closeRet) : cn.closeRet[i] = "nil"

\* C38: when ProcessFetchRequest returns, the jobs_created of its response is
\* the number of messages the call has put on the queue, on success and failure.
C38_JobsCreatedCountsTheQueue ==
    dp.pc = "done" => FetchResponse(dp).JobsCreated = Len(queue)

====
